---- MODULE Spec2Model ----
(***************************************************************************)
(* A model of the RAPTOR engine of source/routing/raptor.cpp: the label    *)
(* store (retour, best), the marking bitsets, the queue Q, the destination *)
(* tracker b_dest, the round loop raptor_loop with its two visitors, the   *)
(* connection and footpath relaxers, the drivers compute_all and           *)
(* compute_reverse_all, and the path reconstruction makePath.              *)
(*                                                                         *)
(* Indices are 0-based as in the code: arrays are functions over 0..n-1.   *)
(* Lists that the code only walks in order (route_point_list of a stop     *)
(* point, the result vectors) are 1-based tuples.                          *)
(***************************************************************************)
EXTENDS Integers, Sequences, FiniteSets, TLC

(***************************************************************************)
(* Bounds of the model.                                                    *)
(***************************************************************************)
\* the datetimes of the queries: 07:40 (departure) or 08:30 (arrival) plus
\* 0..MaxShift times 20 minutes
MaxShift == 1

(***************************************************************************)
(* Sentinels.                                                              *)
(***************************************************************************)
\* std::numeric_limits<int>::max()
IntMax == 2147483647
\* navitia::type::invalid_idx (the largest idx_t), which no index equals
invalid_idx == IntMax - 1
\* std::numeric_limits<uint32_t>::max(): "no local traffic zone"
NoZone == IntMax - 2

(***************************************************************************)
(* DateTime: an ordered scalar carrying (date, seconds of day).            *)
(***************************************************************************)
NB_SECONDS_DAY == 86400
DateTimeMin == 0
DateTimeInf == 2000000000

MkDateTime(date, hour) == date * NB_SECONDS_DAY + hour
DateOf(dt) == dt \div NB_SECONDS_DAY
HourOf(dt) == dt % NB_SECONDS_DAY

\* DateTime::update(hour): seconds := hour, the date advancing if needed
DtUpdate(dt, hour) ==
    IF hour < HourOf(dt) THEN MkDateTime(DateOf(dt) + 1, hour)
                         ELSE MkDateTime(DateOf(dt), hour)

\* DateTime::updatereverse(hour): the symmetric rollback
DtUpdateReverse(dt, hour) ==
    IF hour > HourOf(dt) /\ DateOf(dt) > 0 THEN MkDateTime(DateOf(dt) - 1, hour)
                                           ELSE MkDateTime(DateOf(dt), hour)

(***************************************************************************)
(* Labels (type_retour).                                                   *)
(***************************************************************************)
LabelTypes == {"uninitialized", "depart", "vj", "connection",
               "connection_extension", "connection_guarantee"}

\* type_retour(): the sentinel label of retour_constant
RetourConstant ==
    [arrival |-> DateTimeInf, departure |-> DateTimeInf, type |-> "uninitialized",
     stop_time_idx |-> invalid_idx, rpid_embarquement |-> invalid_idx]

\* the sentinel label of retour_constant_reverse
RetourConstantReverse ==
    [arrival |-> DateTimeMin, departure |-> DateTimeMin, type |-> "uninitialized",
     stop_time_idx |-> invalid_idx, rpid_embarquement |-> invalid_idx]

\* type_retour(arrival, departure): a Departure label
RetourDepart(arrival, departure) ==
    [arrival |-> arrival, departure |-> departure, type |-> "depart",
     stop_time_idx |-> invalid_idx, rpid_embarquement |-> invalid_idx]

\* type_retour(arrival, departure, rpid_embarquement, type = connection)
RetourConnection(arrival, departure, embarquement, type) ==
    [arrival |-> arrival, departure |-> departure, type |-> type,
     stop_time_idx |-> invalid_idx, rpid_embarquement |-> embarquement]

\* RetourVj that records the route point of the stop time itself as boarding point
RetourVjSelfBoarded(st, date, embarquement, clockwise) ==
    [arrival |-> IF clockwise THEN date ELSE DtUpdateReverse(date, st.arrival_time),
     departure |-> IF clockwise THEN DtUpdate(date, st.departure_time) ELSE date,
     type |-> "vj", stop_time_idx |-> st.idx, rpid_embarquement |-> st.route_point_idx]

\* type_retour(st, date, embarquement, clockwise): a VehicleJourney label. Forward,
\* date is the arrival and the departure is date rolled on to the stop time's
\* departure; reverse, date is the departure and the arrival is rolled back.
RetourVj(st, date, embarquement, clockwise) ==
    [arrival |-> IF clockwise THEN date ELSE DtUpdateReverse(date, st.arrival_time),
     departure |-> IF clockwise THEN DtUpdate(date, st.departure_time) ELSE date,
     type |-> "vj", stop_time_idx |-> st.idx, rpid_embarquement |-> embarquement]

(***************************************************************************)
(* Small helpers on tuples and sets.                                       *)
(***************************************************************************)
Range(f) == {f[x] : x \in DOMAIN f}
Min(S) == CHOOSE x \in S : \A y \in S : x <= y
Max(S) == CHOOSE x \in S : \A y \in S : x >= y

RECURSIVE SortedSeq(_)
\* the members of a finite set of integers, ascending
SortedSeq(S) == IF S = {} THEN <<>> ELSE <<Min(S)>> \o SortedSeq(S \ {Min(S)})

RECURSIVE SumLen(_, _)
\* the total length of the first n tuples of the tuple ss
SumLen(ss, n) == IF n = 0 THEN 0 ELSE SumLen(ss, n - 1) + Len(ss[n])

RECURSIVE Flatten(_)
Flatten(ss) == IF ss = <<>> THEN <<>> ELSE Head(ss) \o Flatten(Tail(ss))

\* a 1-based tuple as a 0-based array
Arr(s) == [i \in 0..(Len(s) - 1) |-> s[i + 1]]

(***************************************************************************)
(* The read-only timetable (TransitData). A timetable is written down as a *)
(* description: routes (line, mode, external code, stop points in route    *)
(* order, trips), stop-to-stop footpaths sorted by source stop point, and  *)
(* route-point connections. BuildData lays it out as the dense arrays the  *)
(* engine reads: route points contiguous per route, stop times contiguous  *)
(* per vehicle journey.                                                    *)
(***************************************************************************)
RpOffset(d, r) == SumLen([x \in 1..Len(d.routes) |-> d.routes[x].stops], r - 1)
VjOffset(d, r) == SumLen([x \in 1..Len(d.routes) |-> d.routes[x].trips], r - 1)

RECURSIVE StOffset(_, _)
StOffset(d, r) ==
    IF r = 1 THEN 0
    ELSE StOffset(d, r - 1) + Len(d.routes[r - 1].trips) * Len(d.routes[r - 1].stops)

BuildRoutePoints(d) ==
    Arr(Flatten([r \in 1..Len(d.routes) |->
        [o \in 1..Len(d.routes[r].stops) |->
            [idx |-> RpOffset(d, r) + o - 1, route_idx |-> r - 1, order |-> o - 1,
             stop_point_idx |-> d.routes[r].stops[o]]]]))

BuildStopTimes(d) ==
    Arr(Flatten([r \in 1..Len(d.routes) |->
        Flatten([k \in 1..Len(d.routes[r].trips) |->
            [o \in 1..Len(d.routes[r].stops) |->
                [idx |-> StOffset(d, r) + (k - 1) * Len(d.routes[r].stops) + o - 1,
                 arrival_time |-> d.routes[r].trips[k].times[o][1],
                 departure_time |-> d.routes[r].trips[k].times[o][2],
                 vehicle_journey_idx |-> VjOffset(d, r) + k - 1,
                 route_point_idx |-> RpOffset(d, r) + o - 1,
                 local_traffic_zone |-> d.routes[r].trips[k].zones[o],
                 pick_up_allowed |-> d.routes[r].trips[k].pick[o],
                 drop_off_allowed |-> d.routes[r].trips[k].drop[o]]]])]))

BuildVehicleJourneys(d) ==
    Arr(Flatten([r \in 1..Len(d.routes) |->
        [k \in 1..Len(d.routes[r].trips) |->
            [idx |-> VjOffset(d, r) + k - 1, route_idx |-> r - 1,
             validity_pattern |-> d.routes[r].trips[k].days,
             stop_time_list |->
                 [o \in 0..(Len(d.routes[r].stops) - 1) |->
                     StOffset(d, r) + (k - 1) * Len(d.routes[r].stops) + o]]]]))

BuildRoutes(d) ==
    [r \in 0..(Len(d.routes) - 1) |->
        [idx |-> r, line |-> d.routes[r + 1].line, mode |-> d.routes[r + 1].mode,
         external_code |-> d.routes[r + 1].code,
         route_point_list |->
             [o \in 0..(Len(d.routes[r + 1].stops) - 1) |-> RpOffset(d, r + 1) + o],
         vehicle_journey_list |->
             [k \in 1..Len(d.routes[r + 1].trips) |-> VjOffset(d, r + 1) + k - 1]]]

BuildStopPoints(d) ==
    LET rps == BuildRoutePoints(d)
    IN  [sp \in 0..(d.nb_sp - 1) |->
            [route_point_list |->
                SortedSeq({i \in DOMAIN rps : rps[i].stop_point_idx = sp})]]

BuildFootpathIndex(d) ==
    [sp \in 0..(d.nb_sp - 1) |->
        [first |-> Cardinality({i \in 1..Len(d.foot) : d.foot[i].from < sp}),
         second |-> Cardinality({i \in 1..Len(d.foot) : d.foot[i].from = sp})]]

BuildData(d) ==
    [nb_sp |-> d.nb_sp,
     route_points |-> BuildRoutePoints(d),
     stop_points |-> BuildStopPoints(d),
     routes |-> BuildRoutes(d),
     vehicle_journeys |-> BuildVehicleJourneys(d),
     stop_times |-> BuildStopTimes(d),
     foot_path |-> Arr([i \in 1..Len(d.foot) |->
                        [destination_stop_point_idx |-> d.foot[i].to,
                         duration |-> d.foot[i].duration]]),
     footpath_index |-> BuildFootpathIndex(d),
     footpath_rp |-> d.rpc,
     forbidden_choices |-> d.forbidden_choices]

\* seconds of day
HM(h, m) == h * 3600 + m * 60
\* a stop time whose arrival and departure coincide
At(h, m) == <<HM(h, m), HM(h, m)>>

\* a trip running on the given days, every stop open for pick-up and drop-off
Trip(days, times) ==
    [days |-> days, times |-> times,
     zones |-> [o \in 1..Len(times) |-> NoZone],
     pick |-> [o \in 1..Len(times) |-> TRUE],
     drop |-> [o \in 1..Len(times) |-> TRUE]]

\* a trip with the stops open for pick-up and for drop-off as given
TripDoors(days, times, pick, drop) ==
    [days |-> days, times |-> times,
     zones |-> [o \in 1..Len(times) |-> NoZone],
     pick |-> pick, drop |-> drop]

\* a trip whose stop times carry the local traffic zones given
TripZones(days, times, zones) ==
    [days |-> days, times |-> times, zones |-> zones,
     pick |-> [o \in 1..Len(times) |-> TRUE],
     drop |-> [o \in 1..Len(times) |-> TRUE]]

Route(line, code, mode, stops, trips) ==
    [line |-> line, code |-> code, mode |-> mode, stops |-> stops, trips |-> trips]

Foot(from, to, duration) == [from |-> from, to |-> to, duration |-> duration]

Rpc(dep, dest, length, kind) ==
    [departure_route_point_idx |-> dep, destination_route_point_idx |-> dest,
     length |-> length, connection_kind |-> kind]

NoForbidden == <<>>

(***************************************************************************)
(* The destination tracker (best_dest).                                    *)
(***************************************************************************)
\* map_date_time[rp] of a route point that is no destination
NotDestination == IntMax

\* best_dest::reinit(nb_rpid, borne, clockwise)
BestDestReinit(nb_rp, borne, clockwise) ==
    [map_date_time |-> [rp \in 0..(nb_rp - 1) |-> NotDestination],
     best_now |-> IF clockwise THEN [RetourConstant EXCEPT !.arrival = borne]
                               ELSE [RetourConstantReverse EXCEPT !.departure = borne],
     best_now_rpid |-> invalid_idx,
     count |-> 0]

\* best_dest::ajouter_destination(rpid, dist_to_dest): dist_to_dest is the
\* fraction num / den of seconds, kept in whole seconds beside the date-times
AjouterDestination(b, rpid, dist) ==
    [b EXCEPT !.map_date_time[rpid] = dist.num \div dist.den]

\* does the tracker take the offer of label t at rpid ?
AccepteBest(b, rpid, t, clockwise) ==
    /\ b.map_date_time[rpid] # NotDestination
    /\ IF clockwise THEN t.arrival + b.map_date_time[rpid] <= b.best_now.arrival
                    ELSE t.departure - b.map_date_time[rpid] >= b.best_now.departure

\* best_dest::ajouter_best / ajouter_best_reverse: the tracker after the offer of
\* label t at rpid in round cnt (unchanged when the offer is refused)
AjouterBest(b, rpid, t, cnt, clockwise) ==
    IF AccepteBest(b, rpid, t, clockwise)
    THEN [b EXCEPT !.best_now =
                       IF clockwise
                       THEN [t EXCEPT !.arrival = t.arrival + b.map_date_time[rpid]]
                       ELSE [t EXCEPT !.departure = t.departure - b.map_date_time[rpid]],
                   !.best_now_rpid = rpid,
                   !.count = cnt]
    ELSE b

(***************************************************************************)
(* Trip lookup.                                                            *)
(***************************************************************************)
\* validity_pattern.check(date)
Check(vp, date) == date \in vp
\* validity_pattern.check2(date): fires within one day of date
Check2(vp, date) == \E d \in {date - 1, date, date + 1} : d \in vp

\* earliest_trip: the vehicle journey of the route, valid on the date of dt, that
\* leaves the route point of that order soonest at or after dt; -1 if none
EarliestTrip(data, route, order, dt) ==
    LET st(vj) == data.stop_times[data.vehicle_journeys[vj].stop_time_list[order]]
        ok == {k \in DOMAIN route.vehicle_journey_list :
                  LET vj == route.vehicle_journey_list[k]
                  IN  /\ Check(data.vehicle_journeys[vj].validity_pattern, DateOf(dt))
                      /\ st(vj).departure_time >= HourOf(dt)}
        k0 == CHOOSE k \in ok : \A j \in ok :
                  LET a == st(route.vehicle_journey_list[k]).departure_time
                      b == st(route.vehicle_journey_list[j]).departure_time
                  IN  a < b \/ (a = b /\ k <= j)
    IN  IF ok = {} THEN -1 ELSE route.vehicle_journey_list[k0]

\* tardiest_trip: the vehicle journey of the route, valid on the date of dt, that
\* reaches the route point of that order latest at or before dt; -1 if none
TardiestTrip(data, route, order, dt) ==
    LET st(vj) == data.stop_times[data.vehicle_journeys[vj].stop_time_list[order]]
        ok == {k \in DOMAIN route.vehicle_journey_list :
                  LET vj == route.vehicle_journey_list[k]
                  IN  /\ Check(data.vehicle_journeys[vj].validity_pattern, DateOf(dt))
                      /\ st(vj).arrival_time <= HourOf(dt)}
        k0 == CHOOSE k \in ok : \A j \in ok :
                  LET a == st(route.vehicle_journey_list[k]).arrival_time
                      b == st(route.vehicle_journey_list[j]).arrival_time
                  IN  a > b \/ (a = b /\ k >= j)
    IN  IF ok = {} THEN -1 ELSE route.vehicle_journey_list[k0]

(***************************************************************************)
(* The timetables of the model. Every trip runs on day 1, the day of the   *)
(* queries, unless stated otherwise.                                       *)
(***************************************************************************)
\* one route A, B, C with two trips
NetLine ==
    [nb_sp |-> 3,
     routes |-> << Route("L1", "R0", "bus", <<0, 1, 2>>,
                         << Trip({1}, <<At(8, 0), At(8, 10), At(8, 20)>>),
                            Trip({1}, <<At(8, 30), At(8, 40), At(8, 50)>>) >>) >>,
     foot |-> <<>>, rpc |-> <<>>, forbidden_choices |-> {NoForbidden}]

\* A to D with a change at B (A-B-C then B-D, reaching D at 08:25), or directly,
\* the direct trip reaching D at the given time
NetChange(direct) ==
    [nb_sp |-> 4,
     routes |-> << Route("L1", "R0", "bus", <<0, 1, 2>>,
                         << Trip({1}, <<At(8, 0), At(8, 10), At(8, 30)>>) >>),
                   Route("L2", "R1", "bus", <<1, 3>>,
                         << Trip({1}, <<At(8, 15), At(8, 25)>>) >>),
                   Route("L3", "R2", "bus", <<0, 3>>,
                         << Trip({1}, <<At(8, 5), <<direct, direct>> >>) >>) >>,
     foot |-> <<>>, rpc |-> <<>>, forbidden_choices |-> {NoForbidden}]

\* two routes joined by a 2 minute footpath between P (1) and P' (2)
NetFoot ==
    [nb_sp |-> 4,
     routes |-> << Route("L1", "R0", "bus", <<0, 1>>,
                         << Trip({1}, <<At(8, 0), At(8, 15)>>) >>),
                   Route("L2", "R1", "bus", <<2, 3>>,
                         << Trip({1}, <<At(8, 20), At(8, 40)>>) >>) >>,
     foot |-> << Foot(1, 2, 120), Foot(1, 3, 2400), Foot(2, 1, 120), Foot(3, 1, 2400) >>,
     rpc |-> <<>>, forbidden_choices |-> {NoForbidden}]

\* A-B, then from B an extension to B-C and a guaranteed connection to B-D, both
\* leaving B one minute after the arrival from A
NetConnection ==
    [nb_sp |-> 4,
     routes |-> << Route("L1", "R0", "bus", <<0, 1>>,
                         << Trip({1}, <<At(8, 0), At(8, 10)>>) >>),
                   Route("L1", "R1", "bus", <<1, 2>>,
                         << Trip({1}, <<At(8, 11), At(8, 30)>>),
                            Trip({1}, <<At(8, 40), At(9, 0)>>) >>),
                   Route("L2", "R2", "bus", <<1, 3>>,
                         << Trip({1}, <<At(8, 11), At(8, 20)>>) >>) >>,
     foot |-> <<>>,
     rpc |-> << Rpc(1, 2, 0, "extension"), Rpc(1, 4, 60, "guarantee") >>,
     forbidden_choices |-> {NoForbidden}]

\* four routes A-C: two usable ones on lines L1 and L2, one that never runs near
\* day 1, one that runs on day 2 only
NetForbidden ==
    [nb_sp |-> 2,
     routes |-> << Route("L1", "R0", "bus", <<0, 1>>,
                         << Trip({1}, <<At(8, 0), At(8, 20)>>) >>),
                   Route("L2", "R1", "tram", <<0, 1>>,
                         << Trip({1}, <<At(8, 5), At(8, 30)>>) >>),
                   Route("L3", "R2", "bus", <<0, 1>>,
                         << Trip({5}, <<At(7, 40), At(7, 50)>>) >>),
                   Route("L1", "R3", "metro", <<0, 1>>,
                         << Trip({2}, <<At(7, 45), At(7, 55)>>) >>) >>,
     foot |-> <<>>, rpc |-> <<>>,
     forbidden_choices |-> {NoForbidden, << <<"line", "L1">> >>, << <<"mode", "tram">> >>,
                            << <<"route", "R1">> >>,
                            << <<"line", "L3">>, <<"mode", "bus">> >>}]

\* A to D through B in two legs (A-B, B-D) or in three (A-C, C-B, B-D), both
\* leaving A at 08:00
NetDetour ==
    [nb_sp |-> 4,
     routes |-> << Route("L1", "R0", "bus", <<0, 1>>,
                         << Trip({1}, <<At(8, 0), At(8, 10)>>) >>),
                   Route("L2", "R1", "bus", <<1, 3>>,
                         << Trip({1}, <<At(8, 15), At(8, 25)>>) >>),
                   Route("L3", "R2", "bus", <<0, 2>>,
                         << Trip({1}, <<At(8, 0), At(8, 4)>>) >>),
                   Route("L4", "R3", "bus", <<2, 1>>,
                         << Trip({1}, <<At(8, 7), At(8, 11)>>) >>) >>,
     foot |-> <<>>, rpc |-> <<>>, forbidden_choices |-> {NoForbidden}]

\* A to D directly (08:05 to 08:40) or through B, where the trips of A-B and of
\* B-D run twice, ten minutes apart
NetLate ==
    [nb_sp |-> 3,
     routes |-> << Route("L1", "R0", "bus", <<0, 2>>,
                         << Trip({1}, <<At(8, 5), At(8, 40)>>) >>),
                   Route("L2", "R1", "bus", <<0, 1>>,
                         << Trip({1}, <<At(8, 0), At(8, 10)>>),
                            Trip({1}, <<At(8, 10), At(8, 20)>>) >>),
                   Route("L3", "R2", "bus", <<1, 2>>,
                         << Trip({1}, <<At(8, 15), At(8, 25)>>),
                            Trip({1}, <<At(8, 25), At(8, 35)>>) >>) >>,
     foot |-> <<>>, rpc |-> <<>>, forbidden_choices |-> {NoForbidden}]

\* O to Y (08:03 to 08:10) and O to X (08:00 to 08:20), 5 minute footpaths between
\* X and Y and between X and Z, and a route from Z back to O
NetChain ==
    [nb_sp |-> 4,
     routes |-> << Route("L1", "R0", "bus", <<0, 2>>,
                         << Trip({1}, <<At(8, 3), At(8, 10)>>) >>),
                   Route("L2", "R1", "bus", <<0, 1>>,
                         << Trip({1}, <<At(8, 0), At(8, 20)>>) >>),
                   Route("L3", "R2", "bus", <<3, 0>>,
                         << Trip({1}, <<At(10, 0), At(10, 30)>>) >>) >>,
     foot |-> << Foot(1, 2, 300), Foot(1, 3, 300), Foot(2, 1, 300), Foot(3, 1, 300) >>,
     rpc |-> <<>>, forbidden_choices |-> {NoForbidden}]

\* scenario S1: A, B, C on one route, one vehicle journey 08:00, 08:10, 08:20
NetS1 ==
    [nb_sp |-> 3,
     routes |-> << Route("L1", "R0", "bus", <<0, 1, 2>>,
                         << Trip({1}, <<At(8, 0), At(8, 10), At(8, 20)>>) >>) >>,
     foot |-> <<>>, rpc |-> <<>>, forbidden_choices |-> {NoForbidden}]

\* A to D with a change at B or directly, both reaching D at 08:25. The trip B-D
\* lets nobody off at D, the trip A-B-C lets nobody off at C and nobody on at B.
NetDoors ==
    [nb_sp |-> 4,
     routes |-> << Route("L1", "R0", "bus", <<0, 1, 2>>,
                         << TripDoors({1}, <<At(8, 7), At(8, 10), At(8, 30)>>,
                                      <<TRUE, FALSE, TRUE>>, <<TRUE, TRUE, FALSE>>) >>),
                   Route("L2", "R1", "bus", <<1, 3>>,
                         << TripDoors({1}, <<At(8, 15), At(8, 25)>>,
                                      <<TRUE, TRUE>>, <<TRUE, FALSE>>) >>),
                   Route("L3", "R2", "bus", <<0, 3>>,
                         << Trip({1}, <<At(8, 5), At(8, 25)>>) >>) >>,
     foot |-> <<>>, rpc |-> <<>>, forbidden_choices |-> {NoForbidden}]

\* O to S (07:45 to 08:17) and two routes S to D whose vehicles wait at S: one from
\* 07:50 to 08:20 (reaching D at 08:28), one from 08:05 to 08:10 (reaching D at 08:25)
NetDwell ==
    [nb_sp |-> 3,
     routes |-> << Route("L1", "R0", "bus", <<1, 2>>,
                         << Trip({1}, << <<HM(7, 50), HM(8, 20)>>, At(8, 28) >>) >>),
                   Route("L2", "R1", "bus", <<1, 2>>,
                         << Trip({1}, << <<HM(8, 5), HM(8, 10)>>, At(8, 25) >>) >>),
                   Route("L3", "R2", "bus", <<0, 1>>,
                         << Trip({1}, <<At(7, 45), At(8, 17)>>) >>) >>,
     foot |-> <<>>, rpc |-> <<>>, forbidden_choices |-> {NoForbidden}]

\* local traffic zones: on R0 the stops 0 and 1 lie in zone 1 and stop 2 in zone
\* 2; on R1 stop 3 has no zone and stop 2 lies in zone 2
NetZones ==
    [nb_sp |-> 4,
     routes |-> << Route("L1", "R0", "bus", <<0, 1, 2>>,
                         << TripZones({1}, <<At(8, 0), At(8, 10), At(8, 20)>>,
                                      <<1, 1, 2>>) >>),
                   Route("L2", "R1", "bus", <<3, 2>>,
                         << TripZones({1}, <<At(8, 5), At(8, 25)>>, <<NoZone, 2>>) >>) >>,
     foot |-> <<>>, rpc |-> <<>>, forbidden_choices |-> {NoForbidden}]

\* O-A (08:00, 08:10) and O-B (08:00, 08:30), B-C (08:20, 08:40) and A-C (08:15,
\* 08:35), with a table of connections that chain: from the arrival at A to the
\* arrival at B, to the departure from B and to the departure from A; from the
\* arrival at B and from the departure from B to the arrival at C; and from the
\* departure from A of A-C to the departure from B. Forward, the connection from A
\* overwrites the label of the vehicle at B, itself a marked source; reverse, the
\* connection from the departure from B overwrites that of the departure from A.
NetRelay ==
    [nb_sp |-> 4,
     routes |-> << Route("L1", "R0", "bus", <<0, 1>>,
                         << Trip({1}, <<At(8, 0), At(8, 10)>>) >>),
                   Route("L2", "R1", "bus", <<0, 2>>,
                         << Trip({1}, <<At(8, 0), At(8, 30)>>) >>),
                   Route("L3", "R2", "bus", <<2, 3>>,
                         << Trip({1}, <<At(8, 20), At(8, 40)>>) >>),
                   Route("L4", "R3", "bus", <<1, 3>>,
                         << Trip({1}, <<At(8, 15), At(8, 35)>>) >>) >>,
     foot |-> <<>>,
     rpc |-> << Rpc(1, 3, 60, "guarantee"), Rpc(1, 4, 120, "extension"),
                Rpc(1, 6, 30, "guarantee"), Rpc(3, 5, 60, "guarantee"),
                Rpc(4, 5, 600, "extension"), Rpc(6, 4, 60, "extension") >>,
     forbidden_choices |-> {NoForbidden}]

NetDescriptions ==
    << NetLine, NetChange(HM(8, 20)), NetChange(HM(8, 25)), NetChange(HM(8, 40)),
       NetFoot, NetConnection, NetForbidden, NetDetour, NetLate, NetChain,
       NetChange(HM(8, 26)), NetS1, NetDoors, NetDwell, NetZones, NetRelay >>

Nets ==
    LET Build(ds) == [n \in 1..Len(ds) |-> BuildData(ds[n])]
    IN  Build(NetDescriptions)

(***************************************************************************)
(* The engine. Its operations are written as functions on the record e of  *)
(* the engine's state; the actions below apply them to the variables.      *)
(***************************************************************************)
\* the engine's reference to the timetable (RAPTOR::data)
D(e) == e.data
NbRoutePoints(data) == Cardinality(DOMAIN data.route_points)
NbRoutes(data) == Cardinality(DOMAIN data.routes)
\* retour.size()
RetourSize(e) == Cardinality(DOMAIN e.retour)

\* the walking visitors' capabilities, by direction
Worst(clockwise) == IF clockwise THEN DateTimeInf ELSE DateTimeMin
Comp(clockwise, a, b) == IF clockwise THEN a < b ELSE a > b
Combine(clockwise, a, b) == IF clockwise THEN a + b ELSE a - b
Instant(clockwise, r) == IF clockwise THEN r.arrival ELSE r.departure

\* the boarding slack of a transfer within a stop point, in seconds
ConnectionSlack == 120

\* MakeQueue that leaves the marks of the round before
MakeQueueIdle(e) == e

\* make_queue / make_queuereverse
MakeQueue(e) == [e EXCEPT !.marked_rp = {}, !.marked_sp = {}]

(***************************************************************************)
(* route_path_connections_forward / _backward.                             *)
(***************************************************************************)
\* the connections the loops visit, in order: for each marked route point,
\* ascending, its equal_range in footpath_rp_forward (keyed by departure) or
\* footpath_rp_backward (keyed by destination)
RpcSource(clockwise, rpc) ==
    IF clockwise THEN rpc.departure_route_point_idx ELSE rpc.destination_route_point_idx
RpcTarget(clockwise, rpc) ==
    IF clockwise THEN rpc.destination_route_point_idx ELSE rpc.departure_route_point_idx

RpcEntries(e) ==
    LET marked == SortedSeq(e.marked_rp)
    IN  Flatten([i \in 1..Len(marked) |->
            SelectSeq(D(e).footpath_rp,
                      LAMBDA c : RpcSource(e.clockwise, c) = marked[i])])

\* a connection of kind extension writes a ConnectionExtension label with the
\* kinds exchanged
ConnectionLabelTypeSwapped(kind) ==
    IF kind = "extension" THEN "connection_guarantee" ELSE "connection_extension"

\* the type of the label a connection writes, from its connection_kind
ConnectionLabelType(kind) ==
    IF kind = "extension" THEN "connection_extension" ELSE "connection_guarantee"

RECURSIVE RpcRelaxAnyType(_, _, _, _)
\* RpcRelax that takes a source whatever the type of its label
RpcRelaxAnyType(e, entries, i, to_mark) ==
    IF i > Len(entries) THEN [e |-> e, to_mark |-> to_mark]
    ELSE
      LET rpc == entries[i]
          rp == RpcSource(e.clockwise, rpc)
          target == RpcTarget(e.clockwise, rpc)
          from == e.retour[e.count][rp]
          dt == Combine(e.clockwise, from.arrival, rpc.length)
          ok == Comp(e.clockwise, dt, e.best[target].arrival)
          lab == RetourConnection(dt, dt, rp, ConnectionLabelType(rpc.connection_kind))
      IN  IF ok
          THEN RpcRelaxAnyType([e EXCEPT !.retour[e.count][target] = lab, !.best[target] = lab],
                               entries, i + 1, Append(to_mark, target))
          ELSE RpcRelaxAnyType(e, entries, i + 1, to_mark)

RECURSIVE RpcRelax(_, _, _, _)
\* the first loop: install the labels, collect to_mark
RpcRelax(e, entries, i, to_mark) ==
    IF i > Len(entries) THEN [e |-> e, to_mark |-> to_mark]
    ELSE
      LET rpc == entries[i]
          rp == RpcSource(e.clockwise, rpc)
          target == RpcTarget(e.clockwise, rpc)
          from == e.retour[e.count][rp]
          dt == Combine(e.clockwise, from.arrival, rpc.length)
          ok == from.type = "vj" /\ Comp(e.clockwise, dt, e.best[target].arrival)
          lab == RetourConnection(dt, dt, rp, ConnectionLabelType(rpc.connection_kind))
      IN  IF ok
          THEN RpcRelax([e EXCEPT !.retour[e.count][target] = lab, !.best[target] = lab],
                        entries, i + 1, Append(to_mark, target))
          ELSE RpcRelax(e, entries, i + 1, to_mark)

RECURSIVE RpcMark(_, _, _)
\* the second loop: mark the targets and tighten Q
RpcMark(e, to_mark, i) ==
    IF i > Len(to_mark) THEN e
    ELSE
      LET rp == to_mark[i]
          route_point == D(e).route_points[rp]
          q == e.Q[route_point.route_idx]
          tighter == IF e.clockwise THEN q > route_point.order ELSE q < route_point.order
      IN  RpcMark([e EXCEPT !.marked_rp = @ \cup {rp},
                            !.Q[route_point.route_idx] =
                                IF tighter THEN route_point.order ELSE @],
                  to_mark, i + 1)

RoutePathConnections(e) ==
    LET r == RpcRelax(e, RpcEntries(e), 1, <<>>)
    IN  RpcMark(r.e, r.to_mark, 1)

(***************************************************************************)
(* foot_path(v).                                                           *)
(***************************************************************************)
RECURSIVE FpPivot(_, _, _, _)
\* the member route point of the stop point whose label of this round is best
FpPivot(e, list, i, acc) ==
    IF i > Len(list) THEN acc
    ELSE
      LET rpidx == list[i]
          lab == e.retour[e.count][rpidx]
      IN  FpPivot(e, list, i + 1,
                  IF /\ lab.type \in {"vj", "depart"}
                     /\ Comp(e.clockwise, lab.arrival, acc.best_arrival)
                  THEN [best_arrival |-> lab.arrival, best_rp |-> rpidx]
                  ELSE acc)

\* FpInstall that compares the order with Q as unsigned values: a negative Q
\* counts as a value above every order
FpInstallUnsigned(e, rpidx, time, best_rp) ==
    LET nRetour == RetourConnection(time, time, best_rp, "connection")
        route_point == D(e).route_points[rpidx]
        absorbed == AccepteBest(e.b_dest, rpidx, nRetour, e.clockwise)
    IN  [e EXCEPT !.best[rpidx] = nRetour,
                  !.retour[e.count][rpidx] = nRetour,
                  !.b_dest = AjouterBest(@, rpidx, nRetour, e.count, e.clockwise),
                  !.Q[route_point.route_idx] =
                      IF ~absorbed /\ Comp(e.clockwise, route_point.order, IF @ < 0 THEN IntMax ELSE @)
                      THEN route_point.order ELSE @]

\* FpInstall that records the route point itself as the predecessor of its label
FpInstallSelfLinked(e, rpidx, time, best_rp) ==
    LET nRetour == RetourConnection(time, time, rpidx, "connection")
        route_point == D(e).route_points[rpidx]
        absorbed == AccepteBest(e.b_dest, rpidx, nRetour, e.clockwise)
    IN  [e EXCEPT !.best[rpidx] = nRetour,
                  !.retour[e.count][rpidx] = nRetour,
                  !.b_dest = AjouterBest(@, rpidx, nRetour, e.count, e.clockwise),
                  !.Q[route_point.route_idx] =
                      IF ~absorbed /\ Comp(e.clockwise, route_point.order, @)
                      THEN route_point.order ELSE @]

\* install a Connection label at rpidx: best, retour[count], the tracker, Q
FpInstall(e, rpidx, time, best_rp) ==
    LET nRetour == RetourConnection(time, time, best_rp, "connection")
        route_point == D(e).route_points[rpidx]
        absorbed == AccepteBest(e.b_dest, rpidx, nRetour, e.clockwise)
    IN  [e EXCEPT !.best[rpidx] = nRetour,
                  !.retour[e.count][rpidx] = nRetour,
                  !.b_dest = AjouterBest(@, rpidx, nRetour, e.count, e.clockwise),
                  !.Q[route_point.route_idx] =
                      IF ~absorbed /\ Comp(e.clockwise, route_point.order, @)
                      THEN route_point.order ELSE @]

RECURSIVE FpSiblings(_, _, _, _, _)
\* the route points of the pivot's own stop point
FpSiblings(e, list, i, best_rp, best_departure) ==
    IF i > Len(list) THEN e
    ELSE
      LET rpidx == list[i]
      IN  FpSiblings(IF /\ rpidx # best_rp
                        /\ Comp(e.clockwise, best_departure,
                                Instant(e.clockwise, e.best[rpidx]))
                     THEN FpInstall(e, rpidx, best_departure, best_rp)
                     ELSE e,
                     list, i + 1, best_rp, best_departure)

RECURSIVE FpDestinationRpsStrict(_, _, _, _, _, _)
\* FpDestinationRps that installs a label on a strict improvement only
FpDestinationRpsStrict(s, list, i, best_rp, previous, duration) ==
    IF i > Len(list) THEN s
    ELSE
      LET destination_rp == list[i]
          cw == s.e.clockwise
          next == IF duration # s.prec_duration THEN Combine(cw, previous, duration)
                                                ELSE s.next
          current == Instant(cw, s.e.best[destination_rp])
      IN  IF destination_rp = best_rp
          THEN FpDestinationRpsStrict(s, list, i + 1, best_rp, previous, duration)
          ELSE FpDestinationRpsStrict(
                   [e |-> IF Comp(cw, next, current)
                          THEN FpInstall(s.e, destination_rp, next, best_rp)
                          ELSE s.e,
                    next |-> next, prec_duration |-> duration],
                   list, i + 1, best_rp, previous, duration)

RECURSIVE FpDestinationRps(_, _, _, _, _, _)
\* the route points of the stop point a footpath leads to; s carries the engine
\* and the duration cache (next, prec_duration)
FpDestinationRps(s, list, i, best_rp, previous, duration) ==
    IF i > Len(list) THEN s
    ELSE
      LET destination_rp == list[i]
          cw == s.e.clockwise
          next == IF duration # s.prec_duration THEN Combine(cw, previous, duration)
                                                ELSE s.next
          current == Instant(cw, s.e.best[destination_rp])
      IN  IF destination_rp = best_rp
          THEN FpDestinationRps(s, list, i + 1, best_rp, previous, duration)
          ELSE FpDestinationRps(
                   [e |-> IF Comp(cw, next, current) \/ next = current
                          THEN FpInstall(s.e, destination_rp, next, best_rp)
                          ELSE s.e,
                    next |-> next, prec_duration |-> duration],
                   list, i + 1, best_rp, previous, duration)

RECURSIVE FpSliceShort(_, _, _, _, _)
\* FpSlice that leaves the loop one entry before end
FpSliceShort(s, it, end, best_rp, previous) ==
    IF it + 1 >= end THEN s
    ELSE
      LET fp == D(s.e).foot_path[it]
      IN  FpSliceShort(FpDestinationRps(
                           s, D(s.e).stop_points[fp.destination_stop_point_idx].route_point_list,
                           1, best_rp, previous, fp.duration),
                       it + 1, end, best_rp, previous)

RECURSIVE FpSlice(_, _, _, _, _)
\* the footpaths foot_path[it .. end-1]
FpSlice(s, it, end, best_rp, previous) ==
    IF it = end THEN s
    ELSE
      LET fp == D(s.e).foot_path[it]
      IN  FpSlice(FpDestinationRps(
                      s, D(s.e).stop_points[fp.destination_stop_point_idx].route_point_list,
                      1, best_rp, previous, fp.duration),
                  it + 1, end, best_rp, previous)

\* the body of the loop over the marked stop points; s carries the engine, the
\* shared iterator it and the counter last
FpStopPoint(s, stop_point_idx) ==
    LET e == s.e
        list == D(e).stop_points[stop_point_idx].route_point_list
        index == D(e).footpath_index[stop_point_idx]
        it == s.it + index.first - s.last
        \* the footpaths of the stop point, from the engine e2 left by the siblings
        Footpaths(best_rp, e2) ==
            FpSlice([e |-> e2, next |-> Worst(e.clockwise), prec_duration |-> -1],
                    it, it + index.second, best_rp,
                    Instant(e.clockwise, e2.retour[e2.count][best_rp])).e
        \* the siblings of the pivot, then the footpaths
        Relax(pivot) ==
            Footpaths(pivot.best_rp,
                      FpSiblings(e, list, 1, pivot.best_rp,
                                 Combine(e.clockwise, pivot.best_arrival, ConnectionSlack)))
        From(pivot) ==
            IF pivot.best_rp = invalid_idx THEN s
            ELSE [e |-> Relax(pivot), it |-> it + index.second,
                  last |-> index.first + index.second]
    IN  From(FpPivot(e, list, 1, [best_arrival |-> Worst(e.clockwise),
                                  best_rp |-> invalid_idx]))

RECURSIVE FpLoop(_, _, _)
FpLoop(s, marked, i) ==
    IF i > Len(marked) THEN s ELSE FpLoop(FpStopPoint(s, marked[i]), marked, i + 1)

RECURSIVE FpPrefix(_, _, _)
\* foot_path after the first n marked stop points: the engine, the shared iterator
\* and the counter last
FpPrefix(e, marked, n) ==
    IF n = 0 THEN [e |-> e, it |-> 0, last |-> 0]
    ELSE FpStopPoint(FpPrefix(e, marked, n - 1), marked[n])

\* marcheapied / marcheapiedreverse: foot_path with the visitor of e.clockwise
FootPath(e) == FpLoop([e |-> e, it |-> 0, last |-> 0], SortedSeq(e.marked_sp), 1).e

(***************************************************************************)
(* Seeding: getDepartures, set_routes_valides, clear_and_init.             *)
(***************************************************************************)
\* item.second / 1.38: metres of access or egress walk as seconds, at 1.38 m/s.
\* The quotient of the doubles is kept exact, as the fraction num / den
WalkSeconds(dist) == [num |-> dist * 100, den |-> 138]

\* the whole seconds of such a quotient, as DateTime and best_dest count them
\* (the distances are not negative)
WholeSeconds(q) == q.num \div q.den

\* init::getDepartures(departs, dt, clockwise, data): one Departure_Type for every
\* route point of every stop point of departs
GetDepartures(data, departs, dt, clockwise) ==
    Flatten([i \in 1..Len(departs) |->
        LET list == data.stop_points[departs[i][1]].route_point_list
            at == Combine(clockwise, dt, WholeSeconds(WalkSeconds(departs[i][2])))
        IN  [j \in 1..Len(list) |->
                [rpidx |-> list[j], arrival |-> at, departure |-> at]]])

\* the route points of the stop points of a list of (stop point, distance)
RpsOf(data, stops) ==
    Flatten([i \in 1..Len(stops) |-> data.stop_points[stops[i][1]].route_point_list])

RECURSIVE ParetoFront(_, _, _, _, _)
\* round by round, the destination route point whose label is best in that round,
\* kept when it strictly improves on the rounds before
ParetoFront(retour, rps, clockwise, k, best_dt) ==
    IF k \notin DOMAIN retour THEN <<>>
    ELSE
      LET T(rp) == IF clockwise THEN retour[k][rp].departure ELSE retour[k][rp].arrival
          reached == {j \in 1..Len(rps) : retour[k][rps[j]].type # "uninitialized"}
          j0 == CHOOSE j \in reached : \A i \in reached :
                    \/ Comp(~clockwise, T(rps[j]), T(rps[i]))
                    \/ (T(rps[j]) = T(rps[i]) /\ j <= i)
      IN  IF reached # {} /\ Comp(~clockwise, T(rps[j0]), best_dt)
          THEN << [rpidx |-> rps[j0], arrival |-> T(rps[j0]), round |-> k] >>
               \o ParetoFront(retour, rps, clockwise, k + 1, T(rps[j0]))
          ELSE ParetoFront(retour, rps, clockwise, k + 1, best_dt)

\* init::getDepartures(departs, destinations, clockwise, retour, data): the seeds of
\* the second pass, of direction clockwise, from the labels of the first pass. The
\* departure field is the bound of the second pass: the seed time of the first.
GetDeparturesPareto(data, departs, destinations, clockwise, retour) ==
    LET origins == RpsOf(data, departs)
        seeds == {Instant(~clockwise, retour[0][origins[i]]) : i \in 1..Len(origins)}
        bound == IF clockwise THEN Max(seeds) ELSE Min(seeds)
        Seeds(front) ==
            [i \in 1..Len(front) |->
                [rpidx |-> front[i].rpidx, arrival |-> front[i].arrival,
                 departure |-> bound]]
    IN  Seeds(ParetoFront(retour, RpsOf(data, destinations), clockwise, 1,
                          Worst(~clockwise)))

\* set_routes_valides(date, forbidden): the routes not forbidden by line, route or
\* mode, one of whose vehicle journeys runs within a day of date
RoutesValides(data, date, forbidden) ==
    {r \in DOMAIN data.routes :
        LET route == data.routes[r]
            forbidden_route ==
                \E i \in 1..Len(forbidden) :
                    \/ forbidden[i][1] = "line" /\ forbidden[i][2] = route.line
                    \/ forbidden[i][1] = "route" /\ forbidden[i][2] = route.external_code
                    \/ forbidden[i][1] = "mode" /\ forbidden[i][2] = route.mode
        IN  /\ ~forbidden_route
            /\ \E k \in DOMAIN route.vehicle_journey_list :
                   Check2(data.vehicle_journeys[route.vehicle_journey_list[k]]
                              .validity_pattern, date)}

RECURSIVE InitDeparts(_, _, _, _)
\* clear_and_init, the loop over departs
InitDeparts(e, departs, i, clockwise) ==
    IF i > Len(departs) THEN e
    ELSE
      LET item == departs[i]
          route_point == D(e).route_points[item.rpidx]
          q == e.Q[route_point.route_idx]
          lab == RetourDepart(item.arrival, item.arrival)
      IN  InitDeparts(
              [e EXCEPT !.retour[0][item.rpidx] = lab,
                        !.best[item.rpidx] = lab,
                        !.Q[route_point.route_idx] =
                            IF clockwise /\ q > route_point.order THEN route_point.order
                            ELSE IF ~clockwise /\ q < route_point.order
                                 THEN route_point.order ELSE q,
                        !.marked_sp =
                            IF item.arrival # DateTimeMin /\ item.arrival # DateTimeInf
                            THEN @ \cup {route_point.stop_point_idx} ELSE @],
              departs, i + 1, clockwise)

RECURSIVE InitDestinations(_, _, _, _, _)
\* clear_and_init, the loops over the route points of destinations
InitDestinations(e, dests, i, borne, clockwise) ==
    IF i > Len(dests) THEN e
    ELSE
      LET rpidx == dests[i][1]
          ok == /\ D(e).route_points[rpidx].route_idx \in e.routes_valides
                /\ IF clockwise
                   THEN borne = DateTimeInf \/ e.best[rpidx].arrival > borne
                   ELSE borne = DateTimeMin \/ e.best[rpidx].departure < borne
      IN  InitDestinations(
              IF ok
              THEN [e EXCEPT !.b_dest = AjouterDestination(@, rpidx, WalkSeconds(dests[i][2])),
                             !.best[rpidx] = IF clockwise THEN [@ EXCEPT !.arrival = borne]
                                                          ELSE [@ EXCEPT !.departure = borne]]
              ELSE e,
              dests, i + 1, borne, clockwise)

\* clear_and_init(departs, destinations, borne, clockwise, clear)
ClearAndInit(e, departs, destinations, borne0, clockwise, clear) ==
    LET data == D(e)
        borne == IF clear /\ ~clockwise /\ borne0 = DateTimeInf THEN DateTimeMin ELSE borne0
        constant == [rp \in DOMAIN data.route_points |->
                        IF clockwise THEN RetourConstant ELSE RetourConstantReverse]
        e1 == [e EXCEPT !.Q = [r \in DOMAIN data.routes |-> IF clockwise THEN IntMax ELSE -1]]
        e2 == IF clear
              THEN [e1 EXCEPT !.retour = [k \in {0} |-> constant],
                              !.best = constant,
                              !.b_dest = BestDestReinit(NbRoutePoints(data), borne, clockwise)]
              ELSE e1
        e3 == InitDeparts(e2, departs, 1, clockwise)
        \* every (route point, distance) of the destinations, in the loops' order
        dests == Flatten([i \in 1..Len(destinations) |->
                     LET list == data.stop_points[destinations[i][1]].route_point_list
                     IN  [j \in 1..Len(list) |-> <<list[j], destinations[i][2]>>]])
        e4 == InitDestinations(e3, dests, 1, borne, clockwise)
    IN  [e4 EXCEPT !.count = 1]

(***************************************************************************)
(* The visitors of raptor_loop.                                            *)
(***************************************************************************)
\* embarquement_init
EmbarquementInit(clockwise) == IF clockwise THEN invalid_idx ELSE IntMax
\* working_datetime_init
WorkingDatetimeInit(clockwise) == IF clockwise THEN DateTimeInf ELSE DateTimeMin
\* better(type_retour, type_retour)
Better(clockwise, a, b) ==
    IF clockwise THEN a.arrival < b.arrival ELSE a.departure > b.departure
\* previous_datetime
PreviousDatetime(clockwise, tau) == IF clockwise THEN tau.arrival ELSE tau.departure
\* current_datetime
CurrentDatetime(clockwise, date, st) ==
    IF clockwise THEN MkDateTime(date, st.departure_time)
                 ELSE MkDateTime(date, st.arrival_time)
\* better_or_equal
BetterOrEqual(clockwise, a, current_dt, st) ==
    IF clockwise
    THEN PreviousDatetime(clockwise, a) <= CurrentDatetime(clockwise, DateOf(current_dt), st)
    ELSE PreviousDatetime(clockwise, a) >= CurrentDatetime(clockwise, DateOf(current_dt), st)
\* best_trip
BestTrip(clockwise, data, route, order, dt) ==
    IF clockwise THEN EarliestTrip(data, route, order, dt)
                 ELSE TardiestTrip(data, route, order, dt)
\* update
VisitorUpdate(clockwise, dt, st) ==
    IF clockwise THEN DtUpdate(dt, st.arrival_time)
                 ELSE DtUpdateReverse(dt, st.departure_time)
\* reset_queue_item
QueueSentinel(clockwise) == IF clockwise THEN IntMax ELSE -1
\* one_more_step
OneMoreStep(e) ==
    [e EXCEPT !.retour =
        [k \in 0..RetourSize(e) |->
            IF k < RetourSize(e) THEN e.retour[k]
            ELSE [rp \in DOMAIN D(e).route_points |->
                     IF e.clockwise THEN RetourConstant ELSE RetourConstantReverse]]]

\* StoreBetterForward that, under global pruning, keeps the transfer slack as a
\* margin to the bound of the destination tracker
StoreBetterForwardMargin(e, rpid, bound, st) ==
    LET working_date_time == DtUpdate(e.workingDt, st.arrival_time)
        r == RetourVj(st, working_date_time, e.embarquement, TRUE)
        absorbed == AccepteBest(e.b_dest, rpid, r, TRUE)
        e1 == [e EXCEPT !.workingDt = working_date_time]
        margin == IF e.global_pruning /\ bound = e.b_dest.best_now THEN ConnectionSlack
                                                                  ELSE 0
    IN  IF working_date_time + margin < bound.arrival /\ st.drop_off_allowed
        THEN [e |-> [e1 EXCEPT
                        !.retour[e.count][rpid] = r,
                        !.best[rpid] = r,
                        !.b_dest = AjouterBest(@, rpid, r, e.count, TRUE),
                        !.marked_rp = IF absorbed THEN @ ELSE @ \cup {rpid},
                        !.marked_sp =
                            IF absorbed THEN @
                            ELSE @ \cup {D(e).route_points[rpid].stop_point_idx}],
              ret |-> absorbed]
        ELSE [e |-> e1, ret |-> TRUE]

\* StoreBetterForward whose tie store marks the route point and its stop point and
\* returns false
StoreBetterForwardTieMarked(e, rpid, bound, st) ==
    LET working_date_time == DtUpdate(e.workingDt, st.arrival_time)
        r == RetourVj(st, working_date_time, e.embarquement, TRUE)
        absorbed == AccepteBest(e.b_dest, rpid, r, TRUE)
        e1 == [e EXCEPT !.workingDt = working_date_time]
        Marked(x) == [x EXCEPT !.marked_rp = @ \cup {rpid},
                               !.marked_sp = @ \cup {D(e).route_points[rpid].stop_point_idx}]
    IN  IF working_date_time < bound.arrival /\ st.drop_off_allowed
        THEN [e |-> [(IF absorbed THEN e1 ELSE Marked(e1)) EXCEPT
                        !.retour[e.count][rpid] = r,
                        !.best[rpid] = r,
                        !.b_dest = AjouterBest(@, rpid, r, e.count, TRUE)],
              ret |-> absorbed]
        ELSE IF /\ working_date_time = bound.arrival
                /\ e.retour[e.count - 1][rpid].type = "uninitialized"
                /\ absorbed
             THEN [e |-> [Marked(e1) EXCEPT !.retour[e.count][rpid] = r,
                                            !.best[rpid] = r,
                                            !.b_dest = AjouterBest(@, rpid, r, e.count, TRUE)],
                   ret |-> FALSE]
             ELSE [e |-> e1, ret |-> TRUE]

\* StoreBetterForward that, when it stores and marks, sets Q[route] to the order of
\* the route point
StoreBetterForwardQueued(e, rpid, bound, st) ==
    LET working_date_time == DtUpdate(e.workingDt, st.arrival_time)
        r == RetourVj(st, working_date_time, e.embarquement, TRUE)
        absorbed == AccepteBest(e.b_dest, rpid, r, TRUE)
        e1 == [e EXCEPT !.workingDt = working_date_time]
        Marked(x) == [x EXCEPT !.marked_rp = @ \cup {rpid},
                               !.marked_sp = @ \cup {D(e).route_points[rpid].stop_point_idx},
                               !.Q[D(e).route_points[rpid].route_idx] =
                                   D(e).route_points[rpid].order]
    IN  IF working_date_time < bound.arrival /\ st.drop_off_allowed
        THEN [e |-> [(IF absorbed THEN e1 ELSE Marked(e1)) EXCEPT
                        !.retour[e.count][rpid] = r,
                        !.best[rpid] = r,
                        !.b_dest = AjouterBest(@, rpid, r, e.count, TRUE)],
              ret |-> absorbed]
        ELSE IF /\ working_date_time = bound.arrival
                /\ e.retour[e.count - 1][rpid].type = "uninitialized"
                /\ absorbed
             THEN [e |-> [e1 EXCEPT !.retour[e.count][rpid] = r,
                                    !.best[rpid] = r,
                                    !.b_dest = AjouterBest(@, rpid, r, e.count, TRUE)],
                   ret |-> TRUE]
             ELSE [e |-> e1, ret |-> TRUE]

\* raptor_visitor::store_better, on the engine's workingDt and embarquement:
\* the engine after the call and the value returned
StoreBetterForward(e, rpid, bound, st) ==
    LET working_date_time == DtUpdate(e.workingDt, st.arrival_time)
        r == RetourVj(st, working_date_time, e.embarquement, TRUE)
        absorbed == AccepteBest(e.b_dest, rpid, r, TRUE)
        e1 == [e EXCEPT !.workingDt = working_date_time]
    IN  IF working_date_time < bound.arrival /\ st.drop_off_allowed
        THEN [e |-> [e1 EXCEPT
                        !.retour[e.count][rpid] = r,
                        !.best[rpid] = r,
                        !.b_dest = AjouterBest(@, rpid, r, e.count, TRUE),
                        !.marked_rp = IF absorbed THEN @ ELSE @ \cup {rpid},
                        !.marked_sp =
                            IF absorbed THEN @
                            ELSE @ \cup {D(e).route_points[rpid].stop_point_idx}],
              ret |-> absorbed]
        ELSE IF /\ working_date_time = bound.arrival
                /\ e.retour[e.count - 1][rpid].type = "uninitialized"
                /\ absorbed
             THEN [e |-> [e1 EXCEPT !.retour[e.count][rpid] = r,
                                    !.best[rpid] = r,
                                    !.b_dest = AjouterBest(@, rpid, r, e.count, TRUE)],
                   ret |-> TRUE]
             ELSE [e |-> e1, ret |-> TRUE]

\* StoreBetterReverse that returns true whatever it stores
StoreBetterReverseSilent(e, rpid, bound, st) ==
    LET working_date_time == DtUpdateReverse(e.workingDt, st.departure_time)
        r == RetourVj(st, working_date_time, e.embarquement, FALSE)
        absorbed == AccepteBest(e.b_dest, rpid, r, FALSE)
        e1 == [e EXCEPT !.workingDt = working_date_time]
    IN  IF working_date_time > bound.departure /\ st.pick_up_allowed
        THEN [e |-> [e1 EXCEPT
                        !.retour[e.count][rpid] = r,
                        !.best[rpid] = r,
                        !.b_dest = AjouterBest(@, rpid, r, e.count, FALSE),
                        !.marked_rp = IF absorbed THEN @ ELSE @ \cup {rpid},
                        !.marked_sp =
                            IF absorbed THEN @
                            ELSE @ \cup {D(e).route_points[rpid].stop_point_idx}],
              ret |-> TRUE]
        ELSE IF /\ working_date_time = bound.departure
                /\ e.retour[e.count - 1][rpid].type = "uninitialized"
                /\ absorbed
             THEN [e |-> [e1 EXCEPT !.retour[e.count][rpid] = r,
                                    !.b_dest = AjouterBest(@, rpid, r, e.count, FALSE)],
                   ret |-> TRUE]
             ELSE [e |-> e1, ret |-> TRUE]

\* raptor_reverse_visitor::store_better
StoreBetterReverse(e, rpid, bound, st) ==
    LET working_date_time == DtUpdateReverse(e.workingDt, st.departure_time)
        r == RetourVj(st, working_date_time, e.embarquement, FALSE)
        absorbed == AccepteBest(e.b_dest, rpid, r, FALSE)
        e1 == [e EXCEPT !.workingDt = working_date_time]
    IN  IF working_date_time > bound.departure /\ st.pick_up_allowed
        THEN [e |-> [e1 EXCEPT
                        !.retour[e.count][rpid] = r,
                        !.best[rpid] = r,
                        !.b_dest = AjouterBest(@, rpid, r, e.count, FALSE),
                        !.marked_rp = IF absorbed THEN @ ELSE @ \cup {rpid},
                        !.marked_sp =
                            IF absorbed THEN @
                            ELSE @ \cup {D(e).route_points[rpid].stop_point_idx}],
              ret |-> absorbed]
        ELSE IF /\ working_date_time = bound.departure
                /\ e.retour[e.count - 1][rpid].type = "uninitialized"
                /\ absorbed
             THEN [e |-> [e1 EXCEPT !.retour[e.count][rpid] = r,
                                    !.b_dest = AjouterBest(@, rpid, r, e.count, FALSE)],
                   ret |-> TRUE]
             ELSE [e |-> e1, ret |-> TRUE]

StoreBetter(e, rpid, bound, st) ==
    IF e.clockwise THEN StoreBetterForward(e, rpid, bound, st)
                   ELSE StoreBetterReverse(e, rpid, bound, st)

(***************************************************************************)
(* raptor_loop, step by step. e.pc is the position in the loop:            *)
(*   "walk0"        before the initial visitor.walking()                   *)
(*   "round"        at the head of while(!end)                             *)
(*   "route"        at the head of the loop over the routes, at e.route    *)
(*   "rp"           in the scan of e.route, at the route point of e.order  *)
(*   "connections"  before visitor.route_path_connections()                *)
(*   "walking"      before the round's visitor.walking()                   *)
(*   "loop_done"    raptor_loop has returned                               *)
(***************************************************************************)
\* the locals of raptor_loop as it is entered
LoopEnter(e, clockwise, global_pruning) ==
    [e EXCEPT !.clockwise = clockwise, !.global_pruning = global_pruning,
              !.end = FALSE, !.count = 0, !.t = -1,
              !.embarquement = EmbarquementInit(clockwise),
              !.workingDt = WorkingDatetimeInit(clockwise),
              !.l_zone = NoZone, !.it_st = invalid_idx,
              !.route = 0, !.order = 0, !.pc = "walk0"]

\* the initial visitor.walking()
LoopWalking0(e) == [FootPath(e) EXCEPT !.pc = "round"]

\* ++count; end = true; one_more_step if needed; make_queue
LoopRound(e) ==
    LET e1 == [e EXCEPT !.count = @ + 1, !.end = TRUE]
        e2 == IF e1.count = RetourSize(e1) THEN OneMoreStep(e1) ELSE e1
    IN  [MakeQueue(e2) EXCEPT !.route = 0, !.pc = "route"]

\* after the scan or the skip of e.route: reset_queue_item, the next route
LoopNextRoute(e) ==
    [e EXCEPT !.Q[e.route] = QueueSentinel(e.clockwise),
              !.route = @ + 1,
              !.pc = IF e.route + 1 = NbRoutes(D(e)) THEN "connections" ELSE "route"]

\* the test of the queue alone, without the validity bitset
RouteScannedUnfiltered(e) ==
    /\ e.Q[e.route] # IntMax
    /\ e.Q[e.route] # -1

\* is e.route scanned in this round ?
RouteScanned(e) ==
    /\ e.Q[e.route] # IntMax
    /\ e.Q[e.route] # -1
    /\ e.route \in e.routes_valides

\* LoopRoute that leaves Q[route] as it is when it skips the route
LoopRouteSkipKept(e) ==
    IF RouteScanned(e)
    THEN [e EXCEPT !.t = -1,
                   !.embarquement = EmbarquementInit(e.clockwise),
                   !.workingDt = WorkingDatetimeInit(e.clockwise),
                   !.it_st = invalid_idx,
                   !.order = e.Q[e.route],
                   !.pc = "rp"]
    ELSE [e EXCEPT !.route = @ + 1,
                   !.pc = IF e.route + 1 = NbRoutes(D(e)) THEN "connections" ELSE "route"]

\* the head of the loop over the routes: enter the scan of e.route at order
\* Q[route], or skip the route
LoopRoute(e) ==
    IF RouteScanned(e)
    THEN [e EXCEPT !.t = -1,
                   !.embarquement = EmbarquementInit(e.clockwise),
                   !.workingDt = WorkingDatetimeInit(e.clockwise),
                   !.it_st = invalid_idx,
                   !.order = e.Q[e.route],
                   !.pc = "rp"]
    ELSE LoopNextRoute(e)

\* the bound handed to store_better at the route point rpidx
ScanBound(e, rpidx) ==
    IF Better(e.clockwise, e.best[rpidx], e.b_dest.best_now) \/ ~e.global_pruning
    THEN e.best[rpidx] ELSE e.b_dest.best_now

\* LoopRoutePoint that leaves l_zone as it is when a trip is boarded
LoopRoutePointZoneKept(e) ==
    LET data == D(e)
        cw == e.clockwise
        route == data.routes[e.route]
        rp == data.route_points[route.route_point_list[e.order]]
        last == IF cw THEN Cardinality(DOMAIN route.route_point_list) - 1 ELSE 0
        \* if(t >= 0): ++it_st and the store
        it1 == IF cw THEN e.it_st + 1 ELSE e.it_st - 1
        bound == ScanBound(e, rp.idx)
        Stored(sb) == [sb.e EXCEPT !.end = sb.ret /\ e.end]
        \* the trip etemp is boarded at its stop time it2
        Board(e1, dt, etemp, it2) ==
            [e1 EXCEPT !.t = etemp,
                       !.embarquement = rp.idx,
                       !.it_st = it2,
                       !.workingDt = VisitorUpdate(cw, dt, data.stop_times[it2])]
        Try(e1, dt, etemp) ==
            IF etemp >= 0 /\ e1.t # etemp
            THEN Board(e1, dt, etemp, data.vehicle_journeys[etemp].stop_time_list[rp.order])
            ELSE e1
        \* can an earlier (later) trip be caught here ?
        Catch(e1, retour_temp) ==
            IF /\ retour_temp.type # "uninitialized"
               /\ \/ e1.t = -1
                  \/ BetterOrEqual(cw, retour_temp, e1.workingDt,
                                   data.stop_times[e1.it_st])
            THEN Try(e1, PreviousDatetime(cw, retour_temp),
                     BestTrip(cw, data, route, rp.order, PreviousDatetime(cw, retour_temp)))
            ELSE e1
        \* the next route point, or the next route
        Advance(e2) ==
            IF e.order = last THEN LoopNextRoute(e2)
            ELSE [e2 EXCEPT !.order = IF cw THEN @ + 1 ELSE @ - 1]
        Scan(e1) == Advance(Catch(e1, e1.retour[e1.count - 1][rp.idx]))
    IN  Scan(IF e.t < 0 THEN e
             ELSE IF e.l_zone = NoZone
                     \/ e.l_zone # data.stop_times[it1].local_traffic_zone
                  THEN Stored(StoreBetter([e EXCEPT !.it_st = it1], rp.idx, bound,
                                          data.stop_times[it1]))
                  ELSE [e EXCEPT !.it_st = it1])

\* the body of the loop over the route points of e.route, at e.order
LoopRoutePoint(e) ==
    LET data == D(e)
        cw == e.clockwise
        route == data.routes[e.route]
        rp == data.route_points[route.route_point_list[e.order]]
        last == IF cw THEN Cardinality(DOMAIN route.route_point_list) - 1 ELSE 0
        \* if(t >= 0): ++it_st and the store
        it1 == IF cw THEN e.it_st + 1 ELSE e.it_st - 1
        bound == ScanBound(e, rp.idx)
        Stored(sb) == [sb.e EXCEPT !.end = sb.ret /\ e.end]
        \* the trip etemp is boarded at its stop time it2
        Board(e1, dt, etemp, it2) ==
            [e1 EXCEPT !.t = etemp,
                       !.embarquement = rp.idx,
                       !.it_st = it2,
                       !.workingDt = VisitorUpdate(cw, dt, data.stop_times[it2]),
                       !.l_zone = data.stop_times[it2].local_traffic_zone]
        Try(e1, dt, etemp) ==
            IF etemp >= 0 /\ e1.t # etemp
            THEN Board(e1, dt, etemp, data.vehicle_journeys[etemp].stop_time_list[rp.order])
            ELSE e1
        \* can an earlier (later) trip be caught here ?
        Catch(e1, retour_temp) ==
            IF /\ retour_temp.type # "uninitialized"
               /\ \/ e1.t = -1
                  \/ BetterOrEqual(cw, retour_temp, e1.workingDt,
                                   data.stop_times[e1.it_st])
            THEN Try(e1, PreviousDatetime(cw, retour_temp),
                     BestTrip(cw, data, route, rp.order, PreviousDatetime(cw, retour_temp)))
            ELSE e1
        \* the next route point, or the next route
        Advance(e2) ==
            IF e.order = last THEN LoopNextRoute(e2)
            ELSE [e2 EXCEPT !.order = IF cw THEN @ + 1 ELSE @ - 1]
        Scan(e1) == Advance(Catch(e1, e1.retour[e1.count - 1][rp.idx]))
    IN  Scan(IF e.t < 0 THEN e
             ELSE IF e.l_zone = NoZone
                     \/ e.l_zone # data.stop_times[it1].local_traffic_zone
                  THEN Stored(StoreBetter([e EXCEPT !.it_st = it1], rp.idx, bound,
                                          data.stop_times[it1]))
                  ELSE [e EXCEPT !.it_st = it1])

\* visitor.route_path_connections()
LoopConnections(e) == [RoutePathConnections(e) EXCEPT !.pc = "walking"]

\* LoopWalking that leaves the loop after every round
LoopWalkingOnce(e) == [FootPath(e) EXCEPT !.pc = "loop_done"]

\* the round's visitor.walking(), and the test of while(!end)
LoopWalking(e) ==
    [FootPath(e) EXCEPT !.pc = IF e.end THEN "loop_done" ELSE "round"]

\* one step of raptor_loop
LoopEnabled(e) ==
    e.pc \in {"walk0", "round", "route", "rp", "connections", "walking"}

LoopStep(e) ==
    CASE e.pc = "walk0" -> LoopWalking0(e)
      [] e.pc = "round" -> LoopRound(e)
      [] e.pc = "route" -> LoopRoute(e)
      [] e.pc = "rp" -> LoopRoutePoint(e)
      [] e.pc = "connections" -> LoopConnections(e)
      [] e.pc = "walking" -> LoopWalking(e)

RECURSIVE RunLoop(_)
\* raptor_loop to its return
RunLoop(e) == IF LoopEnabled(e) THEN RunLoop(LoopStep(e)) ELSE e

(***************************************************************************)
(* Path reconstruction: makePath, makePathes, makePathesreverse.           *)
(***************************************************************************)
Reverse(s) == [i \in 1..Len(s) |-> s[Len(s) + 1 - i]]

ConnectionTypes == {"connection", "connection_extension", "connection_guarantee"}

\* the item of a walking, extension or guarantee section; PathItem(departure, arrival)
WalkingItem(e, countb, current_rpid, reverse) ==
    LET r == e.retour[countb][current_rpid]
        r2 == e.retour[countb][r.rpid_embarquement]
    IN  [type |-> IF r.type = "connection" THEN "walking"
                  ELSE IF r.type = "connection_extension" THEN "extension"
                  ELSE "guarantee",
         departure |-> IF reverse THEN r.departure ELSE r2.arrival,
         arrival |-> IF reverse THEN r2.arrival ELSE r.departure,
         stop_points |-> << D(e).route_points[current_rpid].stop_point_idx,
                            D(e).route_points[r.rpid_embarquement].stop_point_idx >>,
         arrivals |-> <<>>, departures |-> <<>>, vj_idx |-> invalid_idx]

RECURSIVE VjStops(_, _, _, _, _, _)
\* the stop times of a vehicle leg from current_st to the one of the boarding
\* route point, with the rolling workingDate: the tuple of (stop point, arrival,
\* departure), or <<"out_of_range">> if stop_times.at() leaves the array
VjStops(data, st_idx, rpid_embarquement, workingDate, reverse, acc) ==
    IF st_idx \notin DOMAIN data.stop_times THEN <<"out_of_range">>
    ELSE
      LET current_st == data.stop_times[st_idx]
          current_rpid == current_st.route_point_idx
          Pushed(stops, t2) ==
              IF current_rpid = rpid_embarquement THEN stops
              ELSE VjStops(data, IF reverse THEN st_idx + 1 ELSE st_idx - 1,
                           rpid_embarquement, t2, reverse, stops)
          Here(t1, t2) ==
              Pushed(Append(acc, [stop_point |-> data.route_points[current_rpid].stop_point_idx,
                                  rpid |-> current_rpid,
                                  arrival |-> IF reverse THEN t1 ELSE t2,
                                  departure |-> IF reverse THEN t2 ELSE t1]),
                     t2)
          Roll(t1) ==
              Here(t1, IF reverse THEN DtUpdate(t1, current_st.departure_time)
                                  ELSE DtUpdateReverse(t1, current_st.arrival_time))
      IN  Roll(IF reverse THEN DtUpdate(workingDate, current_st.arrival_time)
                          ELSE DtUpdateReverse(workingDate, current_st.departure_time))

\* the item of a public transport section ending (reverse: starting) at current_rpid
VjItem(e, countb, current_rpid, reverse) ==
    LET r == e.retour[countb][current_rpid]
        Item(stops, n) ==
            IF stops = <<"out_of_range">> THEN [type |-> "out_of_range"]
            ELSE [type |-> "public_transport",
                  stop_points |-> [i \in 1..n |-> stops[i].stop_point],
                  arrivals |-> [i \in 1..n |-> stops[i].arrival],
                  departures |-> [i \in 1..n |-> stops[i].departure],
                  arrival |-> IF reverse THEN stops[n].arrival ELSE stops[1].arrival,
                  departure |-> IF reverse THEN stops[1].departure ELSE stops[n].departure,
                  vj_idx |-> D(e).stop_times[r.stop_time_idx].vehicle_journey_idx]
        Of(stops) == Item(stops, Len(stops))
    IN  Of(VjStops(D(e), r.stop_time_idx, r.rpid_embarquement,
                   IF reverse THEN r.arrival ELSE r.departure, reverse, <<>>))

RECURSIVE MakePathItems(_, _, _, _, _, _)
\* the loop while(!stop) of makePath: the items in the order they are pushed; fuel
\* bounds the number of iterations, and a path that exhausts it or leaves the
\* arrays ends with an item of type "no_end" or "out_of_range"
MakePathItems(e, countb, current_rpid, reverse, items, fuel) ==
    LET type == e.retour[countb][current_rpid].type
        next == e.retour[countb][current_rpid].rpid_embarquement
        \* after a walking, extension or guarantee item
        Walked(pushed) ==
            IF e.retour[countb][next].type = "depart" THEN pushed
            ELSE MakePathItems(e, countb, next, reverse, pushed, fuel - 1)
        \* after a public transport item
        Ridden(pushed) ==
            IF e.retour[countb - 1][next].type = "depart" THEN pushed
            ELSE MakePathItems(e, countb - 1, next, reverse, pushed, fuel - 1)
        Ride(item) ==
            IF type # "vj" \/ item.type = "out_of_range" \/ countb = 0
            THEN Append(items, [type |-> "out_of_range"])
            ELSE Ridden(Append(items, item))
    IN  IF fuel = 0 THEN Append(items, [type |-> "no_end"])
        ELSE IF type \in ConnectionTypes
        THEN Walked(Append(items, WalkingItem(e, countb, current_rpid, reverse)))
        ELSE Ride(VjItem(e, countb, current_rpid, reverse))

\* is the tuple of items that of a path makePath returns ?
PathEnds(items) == \A i \in 1..Len(items) : items[i].type \notin {"no_end", "out_of_range"}

\* PathOf with the duration taken between the departures of the first and the last
\* item
PathOfDepartureSpan(items, n) ==
    [items |-> items,
     ends |-> PathEnds(items),
     duration |-> IF PathEnds(items) /\ n > 0
                  THEN items[n].departure - items[1].departure ELSE 0,
     nb_changes |-> Cardinality({i \in 2..(n - 1) : items[i].type = "walking"})]

\* the Path of a tuple of items: its duration and number of changes
PathOf(items, n) ==
    [items |-> items,
     ends |-> PathEnds(items),
     duration |-> IF PathEnds(items) /\ n > 0
                  THEN items[n].arrival - items[1].departure ELSE 0,
     nb_changes |-> Cardinality({i \in 2..(n - 1) : items[i].type = "walking"})]

\* the items pushed by a forward reconstruction, put in travel order
Reversed(pushed) ==
    [i \in 1..Len(pushed) |->
        LET it == pushed[Len(pushed) + 1 - i]
        IN  IF it.type = "public_transport"
            THEN [it EXCEPT !.stop_points = Reverse(@),
                            !.arrivals = Reverse(@),
                            !.departures = Reverse(@)]
            ELSE IF it.type \in {"no_end", "out_of_range"} THEN it
            ELSE [it EXCEPT !.stop_points = Reverse(@)]]

\* makePath without the reversal of the items pushed by a forward reconstruction
MakePathUnreversed(e, destination_idx, countb, reverse) ==
    LET Of(items) == PathOf(items, Len(items))
    IN  Of(MakePathItems(e, countb, destination_idx, reverse, <<>>,
                         NbRoutePoints(D(e)) * (countb + 1)))

\* makePath(destination_idx, countb, reverse)
MakePath(e, destination_idx, countb, reverse) ==
    LET Of(items) == PathOf(items, Len(items))
        Ordered(pushed) == Of(IF reverse THEN pushed ELSE Reversed(pushed))
    IN  Ordered(MakePathItems(e, countb, destination_idx, reverse, <<>>,
                              NbRoutePoints(D(e)) * (countb + 1)))

RECURSIVE MakePathesRounds(_, _, _, _)
\* makePathes(destinations, dt), from round i on: the chosen (route point, round)
MakePathesRounds(e, dests, i, dt) ==
    IF i > e.count THEN <<>>
    ELSE
      LET New(j) == e.best[dests[j][1]].arrival + dests[j][2]
          \* the scan of the destinations in order, dt moving with every hit
          Scan[j \in 0..Len(dests)] ==
              IF j = 0 THEN [dt |-> dt, rpid |-> IntMax]
              ELSE LET p == Scan[j - 1]
                   IN  IF /\ e.retour[i][dests[j][1]].type # "uninitialized"
                          /\ e.retour[i][dests[j][1]].arrival
                                 + WholeSeconds(WalkSeconds(dests[j][2]))
                                 <= p.dt
                       THEN [dt |-> New(j), rpid |-> dests[j][1]]
                       ELSE p
          s == Scan[Len(dests)]
      IN  (IF s.rpid # IntMax THEN << <<s.rpid, i>> >> ELSE <<>>)
          \o MakePathesRounds(e, dests, i + 1, s.dt)

\* every (route point, distance) of a list of (stop point, distance), in order
DestinationRps(data, stops) ==
    Flatten([i \in 1..Len(stops) |->
        LET list == data.stop_points[stops[i][1]].route_point_list
        IN  [j \in 1..Len(list) |-> <<list[j], stops[i][2]>>]])

\* makePathes(destinations, dt)
MakePathes(e, destinations, dt) ==
    LET chosen == MakePathesRounds(e, DestinationRps(D(e), destinations), 1, dt)
    IN  [i \in 1..Len(chosen) |-> MakePath(e, chosen[i][1], chosen[i][2], FALSE)]

RECURSIVE MakePathesReverseRounds(_, _, _, _)
MakePathesReverseRounds(e, dests, i, best_dt) ==
    IF i > e.count THEN <<>>
    ELSE
      LET Scan[j \in 0..Len(dests)] ==
              IF j = 0 THEN [best_dt |-> best_dt, best_rp |-> invalid_idx]
              ELSE LET p == Scan[j - 1]
                       current_dt == e.retour[i][dests[j][1]].departure
                                         - WholeSeconds(WalkSeconds(dests[j][2]))
                   IN  IF /\ e.retour[i][dests[j][1]].type # "uninitialized"
                          /\ current_dt >= p.best_dt
                       THEN [best_dt |-> current_dt, best_rp |-> dests[j][1]]
                       ELSE p
          s == Scan[Len(dests)]
      IN  (IF s.best_rp # invalid_idx THEN << <<s.best_rp, i>> >> ELSE <<>>)
          \o MakePathesReverseRounds(e, dests, i + 1, s.best_dt)

\* makePathesreverse(destinations, dt)
MakePathesReverse(e, destinations, dt) ==
    LET chosen == MakePathesReverseRounds(e, DestinationRps(D(e), destinations), 1, dt)
    IN  [i \in 1..Len(chosen) |-> MakePath(e, chosen[i][1], chosen[i][2], TRUE)]

(***************************************************************************)
(* The drivers compute_all and compute_reverse_all (single datetime), step *)
(* by step. Beyond the loop's positions, e.pc is                           *)
(*   "start"           before set_routes_valides                           *)
(*   "init"            before the first clear_and_init                     *)
(*   "next_departure"  at the head of the loop over the second pass' seeds *)
(*   "done"            the driver has returned e.result                    *)
(* e.phase tells the first pass from the second.                           *)
(***************************************************************************)
DoSetRoutesValides(e) ==
    [e EXCEPT !.routes_valides = RoutesValides(D(e), DateOf(e.dt_depart), e.forbidden),
              !.pc = "init"]

\* DoFirstInit with the forward pass of compute_all under global pruning
DoFirstInitPruned(e) ==
    IF e.api = "compute_all"
    THEN LoopEnter(ClearAndInit(e, GetDepartures(D(e), e.departs, e.dt_depart, TRUE),
                                e.destinations, e.borne, TRUE, TRUE),
                   TRUE, TRUE)
    ELSE LoopEnter(ClearAndInit(e, GetDepartures(D(e), e.destinations, e.dt_depart, FALSE),
                                e.departs, e.borne, FALSE, TRUE),
                   FALSE, TRUE)

\* the first pass: forward without global pruning for compute_all, reverse (with
\* the default global pruning) for compute_reverse_all
DoFirstInit(e) ==
    IF e.api = "compute_all"
    THEN LoopEnter(ClearAndInit(e, GetDepartures(D(e), e.departs, e.dt_depart, TRUE),
                                e.destinations, e.borne, TRUE, TRUE),
                   TRUE, FALSE)
    ELSE LoopEnter(ClearAndInit(e, GetDepartures(D(e), e.destinations, e.dt_depart, FALSE),
                                e.departs, e.borne, FALSE, TRUE),
                   FALSE, TRUE)

\* after the first pass: nothing found, or the seeds of the second pass
NoJourney(e) == e.b_dest.best_now.type = "uninitialized"

DoFirstPassDone(e) ==
    IF NoJourney(e) THEN [e EXCEPT !.pc = "done"]
    ELSE [e EXCEPT !.phase = "second",
                   !.pc = "next_departure",
                   !.departures =
                       IF e.api = "compute_all"
                       THEN GetDeparturesPareto(D(e), e.departs, e.destinations, FALSE, e.retour)
                       ELSE GetDeparturesPareto(D(e), e.destinations, e.departs, TRUE, e.retour)]

\* the head of for(auto departure : departures)
DoNextDeparture(e) ==
    IF e.departures = <<>> THEN [e EXCEPT !.pc = "done"]
    ELSE
      LET departure == Head(e.departures)
          e1 == [e EXCEPT !.departures = Tail(@)]
      IN  IF e.api = "compute_all"
          THEN LoopEnter(ClearAndInit(e1, <<departure>>, e.departs, departure.departure,
                                      FALSE, TRUE),
                         FALSE, TRUE)
          ELSE LoopEnter(ClearAndInit(e1, <<departure>>, e.destinations, e.dt_depart,
                                      TRUE, TRUE),
                         TRUE, TRUE)

\* after a second pass: the paths of this seed
DoSecondPassDone(e) ==
    [e EXCEPT !.pc = "next_departure",
              !.result =
                  IF NoJourney(e) THEN @
                  ELSE IF e.api = "compute_all"
                       THEN @ \o MakePathesReverse(e, e.departs, e.dt_depart)
                       ELSE @ \o MakePathes(e, e.destinations, e.dt_depart)]

DriverEnabled(e) ==
    \/ e.pc \in {"start", "init", "next_departure", "loop_done"}
    \/ LoopEnabled(e)

DriverStep(e) ==
    CASE e.pc = "start" -> DoSetRoutesValides(e)
      [] e.pc = "init" -> DoFirstInit(e)
      [] e.pc = "next_departure" -> DoNextDeparture(e)
      [] e.pc = "loop_done" /\ e.phase = "first" -> DoFirstPassDone(e)
      [] e.pc = "loop_done" /\ e.phase = "second" -> DoSecondPassDone(e)
      [] OTHER -> LoopStep(e)

RECURSIVE RunDriver(_)
\* the driver to its return
RunDriver(e) == IF DriverEnabled(e) THEN RunDriver(DriverStep(e)) ELSE e

\* the engine as constructed, about to answer a query
Constructed(n, api, departs, destinations, dt, borne, forbidden) ==
    LET On(data) ==
            [net |-> n, data |-> data, api |-> api, departs |-> departs,
             destinations |-> destinations,
             dt_depart |-> dt, borne |-> borne, forbidden |-> forbidden,
             retour |-> [k \in {0} |-> [rp \in DOMAIN data.route_points |-> RetourConstant]],
             best |-> [rp \in DOMAIN data.route_points |-> RetourConstant],
             Q |-> [r \in DOMAIN data.routes |-> IntMax],
             marked_rp |-> {}, marked_sp |-> {}, count |-> 0,
             b_dest |-> BestDestReinit(NbRoutePoints(data), DateTimeInf, TRUE),
             routes_valides |-> {},
             clockwise |-> TRUE, global_pruning |-> TRUE, end |-> FALSE, t |-> -1,
             embarquement |-> invalid_idx, workingDt |-> DateTimeInf, l_zone |-> NoZone,
             it_st |-> invalid_idx, route |-> 0, order |-> 0,
             phase |-> "first", departures |-> <<>>, result |-> <<>>,
             dt_departs |-> <<>>, bests |-> <<>>, seed |-> 0, pc |-> "start"]
    IN  On(Nets[n])

\* RAPTOR::compute: every stop point at distance 0, borne inf (forward) or min
Query(n, api, origin, destination, dt, forbidden) ==
    Constructed(n, api,
                [i \in 1..Len(origin) |-> <<origin[i], 0>>],
                [i \in 1..Len(destination) |-> <<destination[i], 0>>],
                dt, IF api = "compute_all" THEN DateTimeInf ELSE DateTimeMin, forbidden)

(***************************************************************************)
(* The multi-datetime compute_all: forward passes over the datetimes from   *)
(* the latest to the earliest, the labels and the tracker reset before the  *)
(* first only, a snapshot of b_dest kept after each; then one reverse pass  *)
(* and one path for every snapshot that reached a destination.             *)
(***************************************************************************)
RECURSIVE SortedDescending(_)
\* std::sort(dt_departs, dt1 > dt2)
SortedDescending(dts) ==
    IF dts = <<>> THEN <<>>
    ELSE LET Without(i) == [j \in 1..(Len(dts) - 1) |-> IF j < i THEN dts[j] ELSE dts[j + 1]]
             First(m) == CHOOSE i \in 1..Len(dts) : dts[i] = m
         IN  <<Max(Range(dts))>> \o SortedDescending(Without(First(Max(Range(dts)))))

RECURSIVE SortedAscending(_)
\* std::sort(dt_departs)
SortedAscending(dts) ==
    IF dts = <<>> THEN <<>>
    ELSE LET Without(i) == [j \in 1..(Len(dts) - 1) |-> IF j < i THEN dts[j] ELSE dts[j + 1]]
             First(m) == CHOOSE i \in 1..Len(dts) : dts[i] = m
         IN  <<Min(Range(dts))>> \o SortedAscending(Without(First(Min(Range(dts)))))

\* one forward pass of the first loop, for the datetime dep
MultiForwardPass(e, dep, reset) ==
    RunLoop(LoopEnter(ClearAndInit(e, GetDepartures(D(e), e.departs, dep, TRUE),
                                   e.destinations, e.borne, TRUE, reset),
                      TRUE, TRUE))

\* the reverse pass of the second loop, seeded from the snapshot b
MultiReversePass(e, b, dt) ==
    LET d == [rpidx |-> b.best_now_rpid, arrival |-> b.best_now.arrival,
              departure |-> b.best_now.arrival]
    IN  RunLoop(LoopEnter(ClearAndInit(e, <<d>>, e.departs, dt, FALSE, TRUE),
                          FALSE, TRUE))

\* temp.back() with its request_time; back() of an empty vector is undefined
BackPath(temp, dt) ==
    IF temp = <<>> THEN [undefined |-> TRUE]
    ELSE [undefined |-> FALSE, path |-> temp[Len(temp)], request_time |-> HourOf(dt)]

RECURSIVE MultiForward(_, _, _, _)
\* the first loop from datetime i on: the engine and the snapshots at its end
MultiForward(e, dts, i, bests) ==
    IF i > Len(dts) THEN [e |-> e, bests |-> bests]
    ELSE LET Next1(x) == MultiForward(x, dts, i + 1, Append(bests, x.b_dest))
         IN  Next1(MultiForwardPass(e, dts[i], i = 1))

RECURSIVE MultiReverse(_, _, _, _, _)
\* the second loop from datetime i on: the paths pushed
MultiReverse(e, dts, bests, i, paths) ==
    IF i > Len(dts) THEN paths
    ELSE IF bests[i].best_now.type = "uninitialized"
         THEN MultiReverse(e, dts, bests, i + 1, paths)
         ELSE LET After(x) ==
                      MultiReverse(x, dts, bests, i + 1,
                          IF NoJourney(x) THEN paths
                          ELSE Append(paths,
                                   BackPath(MakePathesReverse(x, x.departs, dts[i]), dts[i])))
              IN  After(MultiReversePass(e, bests[i], dts[i]))

\* compute_all(departs, destinations, dt_departs, borne) on the engine e
ComputeAllMulti(e, dt_departs) ==
    LET Second(f, dts) == MultiReverse(f.e, dts, f.bests, 1, <<>>)
        Run(dts) == Second(MultiForward(e, dts, 1, <<>>), dts)
    IN  Run(SortedDescending(dt_departs))

(***************************************************************************)
(* The state machine.                                                      *)
(***************************************************************************)
VARIABLES
    net, data, api, departs, destinations, dt_depart, borne, forbidden,
    retour, best, Q, marked_rp, marked_sp, count, b_dest, routes_valides,
    clockwise, global_pruning, end, t, embarquement, workingDt, l_zone, it_st,
    route, order, phase, departures, result, dt_departs, bests, seed, pc

vars == << net, data, api, departs, destinations, dt_depart, borne, forbidden,
           retour, best, Q, marked_rp, marked_sp, count, b_dest, routes_valides,
           clockwise, global_pruning, end, t, embarquement, workingDt, l_zone, it_st,
           route, order, phase, departures, result, dt_departs, bests, seed, pc >>

\* the state as a record
Eng ==
    [net |-> net, data |-> data, api |-> api, departs |-> departs,
     destinations |-> destinations, dt_depart |-> dt_depart, borne |-> borne,
     forbidden |-> forbidden,
     retour |-> retour, best |-> best, Q |-> Q, marked_rp |-> marked_rp,
     marked_sp |-> marked_sp, count |-> count, b_dest |-> b_dest,
     routes_valides |-> routes_valides, clockwise |-> clockwise,
     global_pruning |-> global_pruning, end |-> end, t |-> t,
     embarquement |-> embarquement, workingDt |-> workingDt, l_zone |-> l_zone,
     it_st |-> it_st, route |-> route, order |-> order, phase |-> phase,
     departures |-> departures, result |-> result,
     dt_departs |-> dt_departs, bests |-> bests, seed |-> seed, pc |-> pc]

\* the record e becomes the next state
Becomes(e) ==
    /\ net' = e.net /\ data' = e.data /\ api' = e.api /\ departs' = e.departs
    /\ destinations' = e.destinations /\ dt_depart' = e.dt_depart /\ borne' = e.borne
    /\ forbidden' = e.forbidden /\ retour' = e.retour /\ best' = e.best /\ Q' = e.Q
    /\ marked_rp' = e.marked_rp /\ marked_sp' = e.marked_sp /\ count' = e.count
    /\ b_dest' = e.b_dest /\ routes_valides' = e.routes_valides
    /\ clockwise' = e.clockwise /\ global_pruning' = e.global_pruning /\ end' = e.end
    /\ t' = e.t /\ embarquement' = e.embarquement /\ workingDt' = e.workingDt
    /\ l_zone' = e.l_zone /\ it_st' = e.it_st /\ route' = e.route /\ order' = e.order
    /\ phase' = e.phase /\ departures' = e.departures /\ result' = e.result
    /\ dt_departs' = e.dt_departs /\ bests' = e.bests /\ seed' = e.seed
    /\ pc' = e.pc

\* the queries: one or two different origin stop points, one destination stop point
StopPoints(n) == 0..(Nets[n].nb_sp - 1)
Origins(n) ==
    LET Of(S) == {<<a>> : a \in S}
                     \cup {<<x[1], x[2]>> : x \in {y \in S \X S : y[1] # y[2]}}
    IN  Of(StopPoints(n))
Destinations(n) == {<<a>> : a \in StopPoints(n)}
\* the datetimes of the queries, on day 1
QueryTimes(a) ==
    {MkDateTime(1, (IF a = "compute_all" THEN HM(7, 40) ELSE HM(8, 30)) + k * 1200) :
        k \in 0..MaxShift}

\* the variables hold the record e
Holds(e) ==
    /\ net = e.net /\ data = e.data /\ api = e.api /\ departs = e.departs
    /\ destinations = e.destinations /\ dt_depart = e.dt_depart
    /\ borne = e.borne /\ forbidden = e.forbidden /\ retour = e.retour
    /\ best = e.best /\ Q = e.Q /\ marked_rp = e.marked_rp
    /\ marked_sp = e.marked_sp /\ count = e.count /\ b_dest = e.b_dest
    /\ routes_valides = e.routes_valides /\ clockwise = e.clockwise
    /\ global_pruning = e.global_pruning /\ end = e.end /\ t = e.t
    /\ embarquement = e.embarquement /\ workingDt = e.workingDt
    /\ l_zone = e.l_zone /\ it_st = e.it_st /\ route = e.route
    /\ order = e.order /\ phase = e.phase /\ departures = e.departures
    /\ result = e.result /\ dt_departs = e.dt_departs /\ bests = e.bests
    /\ seed = e.seed /\ pc = e.pc

\* the query of scenario S1: (A, C, 07:30) on NetS1
ScenarioS1 == Query(12, "compute_all", <<0>>, <<2>>, MkDateTime(1, HM(7, 30)), NoForbidden)

Init ==
    \/ \E n \in DOMAIN Nets, a \in {"compute_all", "compute_reverse_all"} :
           \E o \in Origins(n), d \in Destinations(n), dt \in QueryTimes(a),
              f \in Nets[n].forbidden_choices :
               Holds(Query(n, a, o, d, dt, f))
    \/ Holds(ScenarioS1)

SetRoutesValides == pc = "start" /\ Becomes(DoSetRoutesValides(Eng))
FirstInit == pc = "init" /\ Becomes(DoFirstInit(Eng))
Walking0 == pc = "walk0" /\ Becomes(LoopWalking0(Eng))
Round == pc = "round" /\ Becomes(LoopRound(Eng))
ScanRoute == pc = "route" /\ RouteScanned(Eng) /\ Becomes(LoopRoute(Eng))
SkipRoute == pc = "route" /\ ~RouteScanned(Eng) /\ Becomes(LoopRoute(Eng))
RoutePoint == pc = "rp" /\ Becomes(LoopRoutePoint(Eng))
Connections == pc = "connections" /\ Becomes(LoopConnections(Eng))
Walking == pc = "walking" /\ Becomes(LoopWalking(Eng))
FirstPassEmpty ==
    pc = "loop_done" /\ phase = "first" /\ NoJourney(Eng) /\ Becomes(DoFirstPassDone(Eng))
FirstPassDone ==
    pc = "loop_done" /\ phase = "first" /\ ~NoJourney(Eng) /\ Becomes(DoFirstPassDone(Eng))
NextDeparture ==
    pc = "next_departure" /\ departures # <<>> /\ Becomes(DoNextDeparture(Eng))
Return == pc = "next_departure" /\ departures = <<>> /\ Becomes(DoNextDeparture(Eng))
SecondPassDone == pc = "loop_done" /\ phase = "second" /\ Becomes(DoSecondPassDone(Eng))

Next ==
    \/ SetRoutesValides
    \/ FirstInit
    \/ Walking0
    \/ Round
    \/ ScanRoute
    \/ SkipRoute
    \/ RoutePoint
    \/ Connections
    \/ Walking
    \/ FirstPassEmpty
    \/ FirstPassDone
    \/ NextDeparture
    \/ Return
    \/ SecondPassDone

Spec == Init /\ [][Next]_vars

\* the positions of the driver and of raptor_loop
PcValues ==
    {"start", "init", "walk0", "round", "route", "rp", "connections", "walking",
     "loop_done", "next_departure", "done"}

\* the driver has a next step: it has not returned. In every state this is
\* ENABLED Next: every position but "done" has an action, and their guards cover
\* the position.
CanStep == pc # "done"

\* what every step changes: the position, or the route or the order of the scan
progress == <<pc, route, order>>

\* some step is taken
Progress ==
    /\ CanStep
    /\ pc' \in PcValues
    /\ route' \in 0..NbRoutes(data)
    /\ order' \in 0..NbRoutePoints(data)

\* the driver is a sequential program: it takes its next step whenever it has one.
\* Along the behaviours of Spec the steps of Next are the steps of Progress that
\* change progress, so this is weak fairness of Next.
FairSpec == Spec /\ WF_progress(Progress)

(***************************************************************************)
(* The multi-datetime compute_all and compute_reverse_all as a state        *)
(* machine. Either is called on an engine as constructed, or on an engine  *)
(* that has answered a single-datetime query of the same direction and day *)
(* before (the call itself never computes routes_valides). The positions   *)
(* of both are                                                             *)
(*   "multi_start"    before the sort of dt_departs                        *)
(*   "multi_first"    at the head of the first loop, at dt_departs[seed]   *)
(*   "multi_second"   at the head of the second loop, at dt_departs[seed]  *)
(*   "aborted"        the call has crashed                                 *)
(*   "done"           the call has returned result                         *)
(***************************************************************************)
\* the datetimes of the multi-datetime calls, on day 1: departures from 07:40 on
\* for compute_all, arrivals from 08:10 on for compute_reverse_all
MultiTimes(single) ==
    {MkDateTime(1, (IF single = "compute_all" THEN HM(7, 40) ELSE HM(8, 10)) + k * 600) :
         k \in 0..(MaxShift + 1)}

\* the lists of one or two datetimes
DtLists(single) ==
    {<<a>> : a \in MultiTimes(single)} \cup {<<a, b>> : a, b \in MultiTimes(single)}

MultiInit ==
    \E n \in DOMAIN Nets, used \in BOOLEAN, single \in {"compute_all", "compute_reverse_all"} :
        \E o \in StopPoints(n), d \in StopPoints(n), dts \in DtLists(single) :
            LET Called(e) ==
                    Holds([e EXCEPT !.api = single \o "_multi", !.dt_departs = dts,
                                    !.result = <<>>, !.pc = "multi_start"])
                Prior(q) == Called(IF used THEN RunDriver(q) ELSE q)
            IN  Prior(Query(n, single, <<o>>, <<d>>,
                            Min(MultiTimes(single)), NoForbidden))

\* compute_all: std::sort(dt_departs, dt1 > dt2)
MultiSort ==
    /\ pc = "multi_start"
    /\ api = "compute_all_multi"
    /\ Becomes([Eng EXCEPT !.dt_departs = SortedDescending(@), !.bests = <<>>,
                           !.seed = 1, !.pc = "multi_first"])

\* one turn of the first loop: a forward pass and the snapshot of b_dest
MultiForwardTurn ==
    /\ pc = "multi_first"
    /\ api = "compute_all_multi"
    /\ seed <= Len(dt_departs)
    /\ LET Kept(x) == Becomes([x EXCEPT !.bests = Append(@, x.b_dest),
                                        !.seed = @ + 1, !.pc = "multi_first"])
       IN  Kept(MultiForwardPass(Eng, dt_departs[seed], seed = 1))

\* the first loop is over
MultiForwardEnd ==
    /\ pc = "multi_first"
    /\ api = "compute_all_multi"
    /\ seed > Len(dt_departs)
    /\ Becomes([Eng EXCEPT !.seed = 1, !.pc = "multi_second"])

\* a turn of the second loop for a snapshot that reached no destination
MultiSkip ==
    /\ pc = "multi_second"
    /\ api = "compute_all_multi"
    /\ seed <= Len(dt_departs)
    /\ bests[seed].best_now.type = "uninitialized"
    /\ Becomes([Eng EXCEPT !.seed = @ + 1])

\* a turn of the second loop for a snapshot that reached a destination: the reverse
\* pass and, when it reaches an origin, temp.back(). back() of an empty vector is
\* undefined: the call crashes or pushes a path of no meaning.
MultiReverseTurn ==
    /\ pc = "multi_second"
    /\ api = "compute_all_multi"
    /\ seed <= Len(dt_departs)
    /\ bests[seed].best_now.type # "uninitialized"
    /\ LET Pushed(x, temp) ==
               IF NoJourney(x)
               THEN Becomes([x EXCEPT !.seed = @ + 1, !.pc = "multi_second"])
               ELSE \E crash \in (IF temp = <<>> THEN BOOLEAN ELSE {FALSE}) :
                        Becomes([x EXCEPT
                                    !.result = IF crash THEN @
                                               ELSE Append(@, BackPath(temp, dt_departs[seed])),
                                    !.seed = @ + 1,
                                    !.pc = IF crash THEN "aborted" ELSE "multi_second"])
           Turn(x) == Pushed(x, IF NoJourney(x) THEN <<>>
                                ELSE MakePathesReverse(x, x.departs, dt_departs[seed]))
       IN  Turn(MultiReversePass(Eng, bests[seed], dt_departs[seed]))

\* return result
MultiReturn ==
    /\ pc = "multi_second"
    /\ api = "compute_all_multi"
    /\ seed > Len(dt_departs)
    /\ Becomes([Eng EXCEPT !.pc = "done"])

\* compute_reverse_all: std::sort(dt_departs)
ReverseAllSort ==
    /\ pc = "multi_start"
    /\ api = "compute_reverse_all_multi"
    /\ Becomes([Eng EXCEPT !.dt_departs = SortedAscending(@), !.bests = <<>>,
                           !.seed = 1, !.pc = "multi_first"])

\* compute_reverse_all, one turn of the first loop: a reverse pass from departs
\* at dt_departs[seed] and the snapshot of b_dest
ReverseAllReverseTurn ==
    /\ pc = "multi_first"
    /\ api = "compute_reverse_all_multi"
    /\ seed <= Len(dt_departs)
    /\ LET Kept(x) == Becomes([x EXCEPT !.bests = Append(@, x.b_dest),
                                        !.seed = @ + 1, !.pc = "multi_first"])
           Pass(e, dep, reset) ==
               RunLoop(LoopEnter(ClearAndInit(e, GetDepartures(D(e), e.departs, dep, FALSE),
                                              e.destinations, e.borne, FALSE, reset),
                                 FALSE, TRUE))
       IN  Kept(Pass(Eng, dt_departs[seed], seed = 1))

\* compute_reverse_all: the first loop is over
ReverseAllReverseEnd ==
    /\ pc = "multi_first"
    /\ api = "compute_reverse_all_multi"
    /\ seed > Len(dt_departs)
    /\ Becomes([Eng EXCEPT !.seed = 1, !.pc = "multi_second"])

\* compute_reverse_all, a turn of the second loop for a snapshot that reached no
\* destination
ReverseAllSkip ==
    /\ pc = "multi_second"
    /\ api = "compute_reverse_all_multi"
    /\ seed <= Len(dt_departs)
    /\ bests[seed].best_now.type = "uninitialized"
    /\ Becomes([Eng EXCEPT !.seed = @ + 1])

\* compute_reverse_all, a turn of the second loop for a snapshot that reached a
\* destination: the forward pass from the route point of the snapshot at its
\* departure and, when it reaches departs, temp.back() of makePathes(destinations,
\* dt_depart). back() of an empty vector is undefined: the call crashes or pushes
\* a path of no meaning.
ReverseAllForwardTurn ==
    /\ pc = "multi_second"
    /\ api = "compute_reverse_all_multi"
    /\ seed <= Len(dt_departs)
    /\ bests[seed].best_now.type # "uninitialized"
    /\ LET Pass(e, b, dt) ==
               RunLoop(LoopEnter(
                   ClearAndInit(e, << [rpidx |-> b.best_now_rpid,
                                       arrival |-> b.best_now.departure,
                                       departure |-> b.best_now.departure] >>,
                                e.departs, dt, TRUE, TRUE),
                   TRUE, TRUE))
           Pushed(x, temp) ==
               IF NoJourney(x)
               THEN Becomes([x EXCEPT !.seed = @ + 1, !.pc = "multi_second"])
               ELSE \E crash \in (IF temp = <<>> THEN BOOLEAN ELSE {FALSE}) :
                        Becomes([x EXCEPT
                                    !.result = IF crash THEN @
                                               ELSE Append(@, BackPath(temp, dt_departs[seed])),
                                    !.seed = @ + 1,
                                    !.pc = IF crash THEN "aborted" ELSE "multi_second"])
           Turn(x) == Pushed(x, IF NoJourney(x) THEN <<>>
                                ELSE MakePathes(x, x.destinations, dt_departs[seed]))
       IN  Turn(Pass(Eng, bests[seed], dt_departs[seed]))

\* compute_reverse_all: return result
ReverseAllReturn ==
    /\ pc = "multi_second"
    /\ api = "compute_reverse_all_multi"
    /\ seed > Len(dt_departs)
    /\ Becomes([Eng EXCEPT !.pc = "done"])

MultiNext ==
    \/ MultiSort
    \/ MultiForwardTurn
    \/ MultiForwardEnd
    \/ MultiSkip
    \/ MultiReverseTurn
    \/ MultiReturn
    \/ ReverseAllSort
    \/ ReverseAllReverseTurn
    \/ ReverseAllReverseEnd
    \/ ReverseAllSkip
    \/ ReverseAllForwardTurn
    \/ ReverseAllReturn

MultiSpec == MultiInit /\ [][MultiNext]_vars

(***************************************************************************)
(* The journeys of the timetable, independently of the engine: from the    *)
(* origins at dt, vehicle legs on valid routes alternating with at most    *)
(* one walk (a transfer within a stop point, a footpath, or a route-point  *)
(* connection after a vehicle leg). A state is (route point, time, mode),  *)
(* the mode telling how the route point was reached: "seed", "walk0" (a    *)
(* walk from a seed), "veh" or "walk" (a walk after a vehicle leg).        *)
(***************************************************************************)
JourneyMoves(tt, valid, s) ==
    LET rp == tt.route_points[s[1]]
        rt == tt.routes[rp.route_idx]
        last == Cardinality(DOMAIN rt.route_point_list) - 1
        rides ==
            IF rp.route_idx \notin valid THEN {}
            ELSE UNION {
                LET vj == tt.vehicle_journeys[rt.vehicle_journey_list[k]]
                    from == tt.stop_times[vj.stop_time_list[rp.order]]
                IN  IF /\ Check(vj.validity_pattern, DateOf(s[2]))
                       /\ from.departure_time >= HourOf(s[2])
                       /\ from.pick_up_allowed
                    THEN {<<rt.route_point_list[o],
                            MkDateTime(DateOf(s[2]),
                                       tt.stop_times[vj.stop_time_list[o]].arrival_time),
                            "veh">> :
                              o \in {x \in (rp.order + 1)..last :
                                        tt.stop_times[vj.stop_time_list[x]].drop_off_allowed}}
                    ELSE {} : k \in DOMAIN rt.vehicle_journey_list}
        after == IF s[3] = "seed" THEN "walk0" ELSE "walk"
        siblings ==
            {<<x, s[2] + ConnectionSlack, after>> :
                x \in Range(tt.stop_points[rp.stop_point_idx].route_point_list) \ {s[1]}}
        index == tt.footpath_index[rp.stop_point_idx]
        walks ==
            UNION {{<<x, s[2] + tt.foot_path[i].duration, after>> :
                      x \in Range(tt.stop_points[tt.foot_path[i]
                                      .destination_stop_point_idx].route_point_list)} :
                   i \in index.first..(index.first + index.second - 1)}
        connections ==
            {<<tt.footpath_rp[i].destination_route_point_idx,
               s[2] + tt.footpath_rp[i].length, "walk">> :
                 i \in {x \in 1..Len(tt.footpath_rp) :
                           tt.footpath_rp[x].departure_route_point_idx = s[1]}}
    IN  rides \cup (IF s[3] \in {"seed", "veh"} THEN siblings \cup walks ELSE {})
              \cup (IF s[3] = "veh" THEN connections ELSE {})

RECURSIVE JourneyClosure(_, _, _)
JourneyClosure(tt, valid, S) ==
    LET more == S \cup UNION {JourneyMoves(tt, valid, s) : s \in S}
    IN  IF more = S THEN S ELSE JourneyClosure(tt, valid, more)

\* the arrival times at the destinations of the journeys with a vehicle leg
JourneyArrivals(tt, valid, origin, destination, dt) ==
    LET seeds == {<<RpsOf(tt, origin)[i], dt, "seed">> : i \in 1..Len(RpsOf(tt, origin))}
        dest == Range(RpsOf(tt, destination))
    IN  {s[2] : s \in {x \in JourneyClosure(tt, valid, seeds) :
                          x[1] \in dest /\ x[3] \in {"veh", "walk"}}}

\* the arrival time of a returned path
PathArrival(path) == path.items[Len(path.items)].arrival
PathDeparture(path) == path.items[1].departure
\* its number of vehicle legs
PathLegs(path) ==
    Cardinality({i \in 1..Len(path.items) : path.items[i].type = "public_transport"})

(***************************************************************************)
(* C1. Termination of raptor_loop.                                         *)
(***************************************************************************)
\* a step of the route scan in which store_better returned false
StoreReturnedFalse == pc = "rp" /\ end /\ ~end'

\* C1: raptor_loop, forward and reverse, terminates: from its entry it reaches its
\* return, a round having passed in which no store_better returned false; and
\* every store that returns false strictly improves best[rp] of some route point
\* in the active direction. (The second conjunct states that the steps of the
\* model are those FairSpec is fair to.)
LoopTerminates ==
    /\ [][StoreReturnedFalse =>
              \E rp \in DOMAIN best : Better(clockwise, best'[rp], best[rp])]_vars
    /\ [][CanStep /\ progress' # progress]_vars
    /\ (pc = "walk0") ~> (pc = "loop_done" /\ end)

\* a loop of either direction has returned after three rounds or more
LoopTerminatesWitness == pc = "loop_done" /\ end /\ count >= 3

(***************************************************************************)
(* C2. compute_all returns the earliest arrival.                           *)
(***************************************************************************)
\* the stop points of a list of (stop point, distance)
StopsOf(stops) == {stops[i][1] : i \in 1..Len(stops)}

\* C2: when compute_all returns paths, the smallest arrival among them is the
\* earliest arrival at a destination over the feasible journeys leaving the
\* origins no earlier than dt_depart; and it returns no path only when there is
\* no feasible journey. (Stated for queries whose origins and destinations are
\* different stop points.)
ComputeAllEarliestArrival ==
    (pc = "done" /\ api = "compute_all" /\ StopsOf(departs) \cap StopsOf(destinations) = {}) =>
        LET arrivals == JourneyArrivals(Nets[net], routes_valides, departs, destinations,
                                        dt_depart)
        IN  IF result = <<>> THEN arrivals = {}
            ELSE /\ arrivals # {}
                 /\ Min({PathArrival(result[i]) : i \in 1..Len(result)}) = Min(arrivals)

(***************************************************************************)
(* C3. The paths of compute_all are Pareto-optimal.                        *)
(***************************************************************************)
\* path p is at least as good as path q in (arrival, number of vehicle legs)
AtLeastAsGood(p, q) == PathArrival(p) <= PathArrival(q) /\ PathLegs(p) <= PathLegs(q)

\* C3: no path returned by compute_all is dominated by another returned path, and
\* of two journeys reaching the destination at the same time only the one with
\* fewer vehicle legs is returned, once: no returned path is at least as good as
\* another returned path.
ComputeAllPareto ==
    (pc = "done" /\ api = "compute_all") =>
        \A i, j \in 1..Len(result) : i # j => ~AtLeastAsGood(result[i], result[j])

(***************************************************************************)
(* C4. Label monotonicity.                                                 *)
(***************************************************************************)
\* the label of round k at rp is no worse than the label of round k - 1, in the
\* direction of the run
RoundImproves(k, rp) ==
    IF clockwise THEN retour[k][rp].arrival <= retour[k - 1][rp].arrival
                 ELSE retour[k][rp].departure >= retour[k - 1][rp].departure

\* C4: in every reachable state, for every route point rp and every round k >= 1
\* whose labels tau[k][rp] and tau[k-1][rp] are both initialized, tau[k][rp] is no
\* later (forward run: arrival) or no earlier (reverse run: departure) than
\* tau[k-1][rp]; route points that are both an origin and a destination included.
LabelMonotonicity ==
    \A k \in DOMAIN retour \ {0} : \A rp \in DOMAIN retour[k] :
        (retour[k][rp].type # "uninitialized" /\ retour[k - 1][rp].type # "uninitialized")
            => RoundImproves(k, rp)

(***************************************************************************)
(* C5. best dominates the labels of every round.                           *)
(***************************************************************************)
\* best[rp] is no worse than the label of round k at rp, in the direction of the run
BestDominates(k, rp) ==
    IF clockwise THEN best[rp].arrival <= retour[k][rp].arrival
                 ELSE best[rp].departure >= retour[k][rp].departure

\* raptor_loop is entered (clear_and_init has run), at the head of a round (the
\* round before is over), or has returned
AfterInitOrRound == pc \in {"walk0", "round", "loop_done"}

\* C5: after initialization and after every round, for every route point rp and
\* every round k whose label tau[k][rp] is initialized, best[rp] is no later
\* (forward: arrival) or no earlier (reverse: departure) than tau[k][rp].
BestDominance ==
    AfterInitOrRound =>
        \A k \in DOMAIN retour : \A rp \in DOMAIN retour[k] :
            retour[k][rp].type # "uninitialized" => BestDominates(k, rp)

(***************************************************************************)
(* C6. Global pruning keeps the optima at the destinations.                *)
(***************************************************************************)
\* the destination route points registered in the tracker
TrackedDestinations(e) ==
    {rp \in DOMAIN e.b_dest.map_date_time : e.b_dest.map_date_time[rp] # NotDestination}

\* the (time at destination, round) pairs of the labels at the destination route
\* points
DestinationPairs(e) ==
    UNION {{<<Combine(e.clockwise, Instant(e.clockwise, e.retour[k][rp]),
                      e.b_dest.map_date_time[rp]), k>> :
               rp \in {x \in TrackedDestinations(e) : e.retour[k][x].type # "uninitialized"}} :
           k \in DOMAIN e.retour}

\* those of them no other pair is at least as good as, in time and in round
DestinationOptima(e) ==
    {p \in DestinationPairs(e) :
        ~\E q \in DestinationPairs(e) :
            /\ q # p
            /\ q[2] <= p[2]
            /\ (q[1] = p[1] \/ Comp(e.clockwise, q[1], p[1]))}

\* raptor_loop run to its return from the current state, with and without global
\* pruning
Pruned == RunLoop([Eng EXCEPT !.global_pruning = TRUE])
Unpruned == RunLoop([Eng EXCEPT !.global_pruning = FALSE])

\* the labels written at the destination route points: (round, route point, label)
DestinationLabels(e) ==
    UNION {{<<k, rp, e.retour[k][rp]>> :
               rp \in {x \in TrackedDestinations(e) : e.retour[k][x].type # "uninitialized"}} :
           k \in DOMAIN e.retour}

\* C6 (amended): from the same timetable, seeds and destinations, raptor_loop with
\* and without global pruning reaches the same set of optimal (time at
\* destination, round) pairs at the destination route points. The labels may
\* differ at route points that are no destination and, at destination route
\* points, in labels that are not optimal.
PruningKeepsOptima ==
    pc = "walk0" => DestinationOptima(Pruned) = DestinationOptima(Unpruned)

\* a loop is entered whose two runs differ in a label and reach a destination
PruningKeepsOptimaWitness ==
    /\ pc = "walk0"
    /\ Pruned.retour # Unpruned.retour
    /\ DestinationOptima(Pruned) # {}

\* C6 as stated: the two runs reach the same optimal pairs, and their labels
\* differ at route points that are no destination only.
PruningOnlyIntermediate ==
    pc = "walk0" =>
        /\ DestinationOptima(Pruned) = DestinationOptima(Unpruned)
        /\ DestinationLabels(Pruned) = DestinationLabels(Unpruned)

(***************************************************************************)
(* C8: the shape of the paths of makePath.                                 *)
(***************************************************************************)
\* the number of items of a path whose type is in types
NbItems(path, types) ==
    Cardinality({i \in 1..Len(path.items) : path.items[i].type \in types})

WalkingTypes == {"walking", "extension", "guarantee"}

\* two walking or connection items follow each other
TwoWalksInARow(path) ==
    \E i \in 1..(Len(path.items) - 1) :
        path.items[i].type \in WalkingTypes /\ path.items[i + 1].type \in WalkingTypes

\* the path of k vehicle legs with k-1 or k walking items, never two in a row
WithinTransferBound(path, k) ==
    /\ path.ends
    /\ NbItems(path, {"public_transport"}) = k
    /\ NbItems(path, WalkingTypes) \in {k - 1, k}
    /\ ~TwoWalksInARow(path)

\* the labels makePath is called on after a second pass: the initialized labels
\* of rounds 1..count at the route points of the pass' destinations
PathLabels(e) ==
    UNION {{<<k, rp>> : rp \in {x \in TrackedDestinations(e) :
                                    e.retour[k][x].type # "uninitialized"}} :
           k \in 1..e.count}

\* C8: when a second pass has returned, the path makePath reconstructs from the
\* label at round k of a destination route point has exactly k public_transport
\* items and k-1 or k walking items, no two walking or connection items in a row.
TransferBound ==
    pc = "loop_done" /\ phase = "second" =>
        \A x \in PathLabels(Eng) :
            WithinTransferBound(MakePath(Eng, x[2], x[1], ~clockwise), x[1])

(***************************************************************************)
(* C9: the kinds of the connection labels and items.                       *)
(***************************************************************************)
\* the connection_kind a label or item type stands for
IsExtension(type) == type \in {"connection_extension", "extension"}

\* footpath_rp_forward (forward run) or footpath_rp_backward (reverse run) has an
\* entry from route point rp to route point target that is an extension or not
HasEntry(tt, cw, rp, target, extension) ==
    \E i \in DOMAIN tt.footpath_rp :
        /\ RpcSource(cw, tt.footpath_rp[i]) = rp
        /\ RpcTarget(cw, tt.footpath_rp[i]) = target
        /\ (tt.footpath_rp[i].connection_kind = "extension") = extension

\* the labels of type ConnectionExtension or ConnectionGuarantee: (round, route point)
KindLabels ==
    UNION {{<<k, rp>> : rp \in {x \in DOMAIN retour[k] :
                                    retour[k][x].type \in {"connection_extension",
                                                           "connection_guarantee"}}} :
           k \in DOMAIN retour}

\* the extension and guarantee items of the returned paths: (path, item)
KindItems ==
    UNION {{<<i, j>> : j \in {x \in 1..Len(result[i].items) :
                                 result[i].items[x].type \in {"extension", "guarantee"}}} :
           i \in 1..Len(result)}

\* some entry of the connection table joins the two stop points of the item, with
\* the kind of the item
ItemHasEntry(tt, item) ==
    \E i \in DOMAIN tt.footpath_rp :
        LET c == tt.footpath_rp[i]
            from == tt.route_points[c.departure_route_point_idx].stop_point_idx
            to == tt.route_points[c.destination_route_point_idx].stop_point_idx
        IN  /\ {from, to} = Range(item.stop_points)
            /\ (c.connection_kind = "extension") = IsExtension(item.type)

\* C9: in every reachable state every label of type ConnectionExtension or
\* ConnectionGuarantee at route point rp' with predecessor rp has an entry from rp
\* to rp' in the connection table of the direction of the run, of kind extension,
\* respectively not extension; and every extension or guarantee item of a returned
\* path has such an entry between its stop points.
ConnectionKinds ==
    /\ \A x \in KindLabels :
           LET lab == retour[x[1]][x[2]]
           IN  HasEntry(Nets[net], clockwise, lab.rpid_embarquement, x[2],
                        IsExtension(lab.type))
    /\ \A y \in KindItems : ItemHasEntry(Nets[net], result[y[1]].items[y[2]])

\* labels of both kinds are present, and a returned path has an extension or a
\* guarantee item
ConnectionKindsWitness ==
    /\ \E x \in KindLabels : retour[x[1]][x[2]].type = "connection_extension"
    /\ \E x \in KindLabels : retour[x[1]][x[2]].type = "connection_guarantee"
    /\ KindItems # {}

(***************************************************************************)
(* C10: the validity and forbidden filter.                                 *)
(***************************************************************************)
\* the codes named in forbidden under a key
ForbiddenCodes(key) == {forbidden[i][2] : i \in {j \in 1..Len(forbidden) : forbidden[j][1] = key}}

\* some vehicle journey of route r has a validity pattern that fires for date
Runs(tt, r, date) ==
    \E vj \in Range(tt.routes[r].vehicle_journey_list) :
        Check2(tt.vehicle_journeys[vj].validity_pattern, date)

\* the routes that run and none of whose line, route or mode codes is forbidden
AllowedRoutes ==
    {r \in DOMAIN Nets[net].routes :
        /\ Runs(Nets[net], r, DateOf(dt_depart))
        /\ Nets[net].routes[r].line \notin ForbiddenCodes("line")
        /\ Nets[net].routes[r].external_code \notin ForbiddenCodes("route")
        /\ Nets[net].routes[r].mode \notin ForbiddenCodes("mode")}

\* the route points that hold a VehicleJourney label in some round
VjLabelled ==
    UNION {{rp \in DOMAIN retour[k] : retour[k][rp].type = "vj"} : k \in DOMAIN retour}

\* C10: once set_routes_valides has run, routes_valides holds exactly the routes one
\* of whose vehicle journeys fires for the date (check2) and none of whose line,
\* route or mode codes is forbidden; the round loops scan valid routes only, and no
\* VehicleJourney label is stored on a route point of an invalid route.
ValidityFilter ==
    pc # "start" =>
        /\ routes_valides = AllowedRoutes
        /\ pc = "rp" => route \in routes_valides
        /\ \A rp \in VjLabelled : Nets[net].route_points[rp].route_idx \in routes_valides

\* the loop is at the head of a queued route that a forbidden code makes invalid,
\* another route is invalid for its validity pattern alone, and a VehicleJourney
\* label has been stored
ValidityFilterWitness ==
    /\ pc = "route"
    /\ RouteScannedUnfiltered(Eng)
    /\ route \notin routes_valides
    /\ Runs(Nets[net], route, DateOf(dt_depart))
    /\ \E r \in DOMAIN Nets[net].routes : ~Runs(Nets[net], r, DateOf(dt_depart))
    /\ VjLabelled # {}

(***************************************************************************)
(* C7: forward and reverse queries.                                        *)
(***************************************************************************)
\* the answer of the reverse query of the current one: arrive by dt
ReverseQuery(dt) ==
    RunDriver(Constructed(net, "compute_reverse_all", departs, destinations, dt,
                          DateTimeMin, forbidden))

\* the reverse query returns a journey of the duration of the path
SameDurationBack(path) ==
    LET back == ReverseQuery(PathArrival(path)).result
    IN  \E j \in 1..Len(back) : back[j].ends /\ back[j].duration = path.duration

\* C7: when compute_all (one origin A, one destination B, departure dt) has returned a
\* journey arriving at dt', compute_reverse_all (arrive at B by dt', from A) returns
\* a journey, and one of the same total duration.
DirectionDuality ==
    pc = "done" /\ api = "compute_all" /\ Len(departs) = 1 /\ Len(destinations) = 1 =>
        \A i \in 1..Len(result) : result[i].ends => SameDurationBack(result[i])

\* compute_all has returned a journey with a change from one origin to one
\* destination, and the reverse query at its arrival returns one as long
DirectionDualityWitness ==
    /\ pc = "done" /\ api = "compute_all" /\ Len(departs) = 1 /\ Len(destinations) = 1
    /\ \E i \in 1..Len(result) :
           /\ result[i].ends
           /\ PathLegs(result[i]) >= 2
           /\ SameDurationBack(result[i])

(***************************************************************************)
(* C11: the outcome "no journey found".                                    *)
(***************************************************************************)
\* the driver has returned straight after a first pass that found nothing: the
\* phase is still the first, no second pass was entered
ReturnedAfterFirstPass == pc = "done" /\ phase = "first"

\* C11: when the first pass of compute_all or compute_reverse_all ends with
\* b_dest.best_now uninitialized, the call returns an empty list without a second
\* pass (the engine is left as the first pass left it, no path was built); and an
\* empty list is returned in no other case.
NoJourneyOutcome ==
    /\ ReturnedAfterFirstPass =>
           /\ result = <<>>
           /\ NoJourney(Eng)
           /\ clockwise = (api = "compute_all")
    /\ pc = "done" /\ result = <<>> => ReturnedAfterFirstPass

(***************************************************************************)
(* C12: the multi-datetime compute_all against one call for every seed.    *)
(***************************************************************************)
\* the engine of an independent query: as constructed, holding the routes_valides
\* that the engine of the multi-datetime call holds
IndependentEngine ==
    [Query(net, "compute_all", <<departs[1][1]>>, <<destinations[1][1]>>,
           dt_depart, NoForbidden)
        EXCEPT !.routes_valides = routes_valides]

\* the paths of one independent call for every datetime, in the order of the seeds
IndependentPaths ==
    Flatten([i \in 1..Len(dt_departs) |->
                ComputeAllMulti(IndependentEngine, <<dt_departs[i]>>)])

\* C12: the multi-datetime compute_all returns (it does not crash), and what it
\* returns is, seed by seed, the defined path that a call for that seed alone
\* returns on an engine that holds no label of another seed.
MultiDatetimeEquivalence ==
    /\ api = "compute_all_multi" => pc # "aborted"
    /\ pc = "done" /\ api = "compute_all_multi" =>
           /\ result = IndependentPaths
           /\ \A i \in 1..Len(result) : ~result[i].undefined

(***************************************************************************)
(* C13: scenario S1.                                                       *)
(***************************************************************************)
\* compute_all has returned the answer to the query of scenario S1
AnsweredS1 ==
    /\ pc = "done"
    /\ net = ScenarioS1.net /\ api = ScenarioS1.api
    /\ departs = ScenarioS1.departs /\ destinations = ScenarioS1.destinations
    /\ dt_depart = ScenarioS1.dt_depart

\* exactly one path, made of one public_transport item from A to C, no change
OneDirectPath ==
    /\ Len(result) = 1
    /\ Len(result[1].items) = 1
    /\ result[1].items[1].type = "public_transport"
    /\ result[1].items[1].stop_points = <<0, 1, 2>>
    /\ result[1].nb_changes = 0

\* C13 (amended): the query (A, C, 07:30) of scenario S1 returns exactly one path,
\* which has one public_transport item, nb_changes = 0 and a duration of 20
\* minutes: from the departure of the vehicle at 08:00 to its arrival at 08:20.
ScenarioS1Result == AnsweredS1 => OneDirectPath /\ result[1].duration = HM(0, 20)

ScenarioS1Witness ==
    /\ AnsweredS1
    /\ Len(result) = 1
    /\ result[1].items[1].departure = MkDateTime(1, HM(8, 0))
    /\ result[1].items[1].arrival = MkDateTime(1, HM(8, 20))

\* C13 as stated: the path of scenario S1 has a duration of 50 minutes
ScenarioS1FiftyMinutes == AnsweredS1 => OneDirectPath /\ result[1].duration = HM(0, 50)

(***************************************************************************)
(* C14: the boarding point of a VehicleJourney label.                      *)
(***************************************************************************)
\* every label held at rp: in a round of retour, or in best
LabelsAt(rp) == {retour[k][rp] : k \in DOMAIN retour} \cup {best[rp]}

\* board is a route point of the route of rp, before rp in the direction of the run
BoardedBefore(board, rp) ==
    /\ board \in DOMAIN data.route_points
    /\ data.route_points[board].route_idx = data.route_points[rp].route_idx
    /\ IF clockwise
       THEN data.route_points[board].order < data.route_points[rp].order
       ELSE data.route_points[board].order > data.route_points[rp].order

\* C14: in every reachable state, every label of type VehicleJourney at a route
\* point rp has a boarding route point on the route of rp, of strictly smaller
\* order in a forward run and of strictly greater order in a reverse run.
BoardingPoint ==
    \A rp \in DOMAIN data.route_points :
        \A lab \in LabelsAt(rp) :
            lab.type = "vj" => BoardedBefore(lab.rpid_embarquement, rp)

\* a reverse run has returned, holding a VehicleJourney label two stops before its
\* boarding point
BoardingPointWitness ==
    /\ ~clockwise
    /\ pc = "loop_done"
    /\ \E rp \in DOMAIN data.route_points :
           \E lab \in LabelsAt(rp) :
               /\ lab.type = "vj"
               /\ BoardedBefore(lab.rpid_embarquement, rp)
               /\ data.route_points[lab.rpid_embarquement].order
                      = data.route_points[rp].order + 2

(***************************************************************************)
(* The call of store_better that the scan is about to make, as seen from   *)
(* the state: its route point, its stop time, its bound and its outcome.   *)
(***************************************************************************)
LoopPositions == {"walk0", "round", "route", "rp", "connections", "walking", "loop_done"}

\* the route point of the scan
ScanRp == data.routes[route].route_point_list[order]

\* the stop time the scan moves to at this route point
ScanSt == data.stop_times[IF clockwise THEN it_st + 1 ELSE it_st - 1]

\* the next step of the scan calls store_better
StoreCalled ==
    /\ pc = "rp"
    /\ t >= 0
    /\ l_zone = NoZone \/ l_zone # ScanSt.local_traffic_zone

\* the engine after that call and the value it returns
StoreCall == StoreBetter([Eng EXCEPT !.it_st = ScanSt.idx], ScanRp, ScanBound(Eng, ScanRp), ScanSt)

\* the time that store_better compares with its bound
StoreTime == StoreCall.e.workingDt

\* the call writes a label into retour[count][rp]
StoreWrites == StoreCall.e.retour[count][ScanRp] # retour[count][ScanRp]

(***************************************************************************)
(* C15: the pruning of the forward pass of compute_all.                    *)
(***************************************************************************)
InFirstPassOfComputeAll ==
    api = "compute_all" /\ phase = "first" /\ pc \in LoopPositions

\* C15 (amended): in the single-datetime compute_all, the forward pass (the first
\* round loop, seeded from departs at dt_depart) runs with global pruning
\* disabled: the bound handed to store_better at rp is best[rp], whatever
\* b_dest.best_now is.
FirstPassUnpruned ==
    InFirstPassOfComputeAll =>
        /\ ~global_pruning
        /\ StoreCalled => ScanBound(Eng, ScanRp) = best[ScanRp]

\* the forward pass stores a label that is no better than b_dest.best_now, at a
\* route point where b_dest.best_now is better than best[rp]
FirstPassUnprunedWitness ==
    /\ InFirstPassOfComputeAll
    /\ StoreCalled
    /\ Better(clockwise, b_dest.best_now, best[ScanRp])
    /\ StoreWrites
    /\ StoreTime >= b_dest.best_now.arrival

\* C15 as stated: the forward pass of compute_all runs with global pruning enabled,
\* the bound at rp being the better of best[rp] and b_dest.best_now
FirstPassPruned ==
    InFirstPassOfComputeAll =>
        /\ global_pruning
        /\ StoreCalled =>
               ScanBound(Eng, ScanRp) = IF Better(clockwise, best[ScanRp], b_dest.best_now)
                                        THEN best[ScanRp] ELSE b_dest.best_now

(***************************************************************************)
(* C16: drop-off and pick-up permission.                                   *)
(***************************************************************************)
\* the stop time of a VehicleJourney label lets passengers off (forward run) or on
\* (reverse run)
DoorOpen(lab) ==
    IF clockwise THEN data.stop_times[lab.stop_time_idx].drop_off_allowed
                 ELSE data.stop_times[lab.stop_time_idx].pick_up_allowed

\* C16: in every reachable state, a VehicleJourney label stands in retour[k][rp]
\* only if the stop time used at rp permits drop-off (forward run) or pick-up
\* (reverse run), and the call of store_better that the scan is about to make
\* writes a label, by strict improvement or by tie, only under that permission.
DoorPermission ==
    /\ \A k \in DOMAIN retour : \A rp \in DOMAIN data.route_points :
           retour[k][rp].type = "vj" => DoorOpen(retour[k][rp])
    /\ StoreCalled /\ StoreWrites =>
           IF clockwise THEN ScanSt.drop_off_allowed ELSE ScanSt.pick_up_allowed

(***************************************************************************)
(* C17: the tie rule of store_better.                                      *)
(***************************************************************************)
\* the time the bound holds in the direction of the run
BoundTime == Instant(clockwise, ScanBound(Eng, ScanRp))

\* the label that store_better offers to the destination tracker
Offered == RetourVj(ScanSt, StoreTime, embarquement, clockwise)

\* the destination tracker accepts the offer
Absorbed == AccepteBest(b_dest, ScanRp, Offered, clockwise)

\* the call leaves the two bitsets as they are
MarksUnchanged == StoreCall.e.marked_rp = marked_rp /\ StoreCall.e.marked_sp = marked_sp

\* C17: when the time computed by store_better equals the bound, a label is written
\* to retour[count][rp] only if retour[count - 1][rp] is uninitialized and the
\* destination tracker accepts the offer; in that case neither rp nor its stop point
\* is marked and store_better returns true.
TieRule ==
    StoreCalled /\ StoreTime = BoundTime /\ StoreWrites =>
        /\ retour[count - 1][ScanRp].type = "uninitialized"
        /\ Absorbed
        /\ StoreCall.e.retour[count][ScanRp] = Offered
        /\ MarksUnchanged
        /\ StoreCall.ret

\* a forward scan is about to store a label on a tie with its bound
TieRuleWitness ==
    /\ StoreCalled
    /\ clockwise
    /\ StoreTime = BoundTime
    /\ StoreWrites

(***************************************************************************)
(* C18: every store sets best.                                             *)
(***************************************************************************)
\* C18: whenever store_better writes a label into retour[count][rp], by strict
\* improvement or by tie, forward or reverse, best[rp] is that same label right
\* after the call.
EveryStoreSetsBest ==
    StoreCalled /\ StoreWrites =>
        StoreCall.e.best[ScanRp] = StoreCall.e.retour[count][ScanRp]

(***************************************************************************)
(* C19: marking and the signal "not done".                                 *)
(***************************************************************************)
\* the call stores a label that is strictly better than the bound
StrictStore == StoreWrites /\ Comp(clockwise, StoreTime, BoundTime)

\* C19: store_better returns false, which makes raptor_loop run another round, if
\* and only if it stored a strictly better label that the destination tracker did
\* not absorb; exactly in that case it sets marked_rp[rp] and marked_sp[stop point
\* of rp]; in every other case it changes neither bitset and returns true.
MarkingAndSignal ==
    StoreCalled =>
        /\ ~StoreCall.ret <=> (StrictStore /\ ~Absorbed)
        /\ IF StoreCall.ret THEN MarksUnchanged
           ELSE /\ StoreCall.e.marked_rp = marked_rp \cup {ScanRp}
                /\ StoreCall.e.marked_sp =
                       marked_sp \cup {data.route_points[ScanRp].stop_point_idx}
                /\ ~LoopRoutePoint(Eng).end

\* a reverse scan is about to store a label that the tracker does not absorb, at a
\* route point not marked yet, in a round that was done so far
MarkingAndSignalWitness ==
    /\ StoreCalled
    /\ ~clockwise
    /\ ~StoreCall.ret
    /\ ScanRp \notin marked_rp
    /\ end

(***************************************************************************)
(* C20: store_better and the queue.                                        *)
(***************************************************************************)
\* the route of rp is queued at rp or before it in the direction of the run
Queued(rp) ==
    /\ Q[data.route_points[rp].route_idx] # QueueSentinel(clockwise)
    /\ IF clockwise THEN Q[data.route_points[rp].route_idx] <= data.route_points[rp].order
                    ELSE Q[data.route_points[rp].route_idx] >= data.route_points[rp].order

\* the route points that store_better marked in the round that has just ended: a
\* mark on a VehicleJourney label of the round
MarkedByStore == {rp \in marked_rp : retour[count][rp].type = "vj"}

\* C20 (amended): store_better never writes Q: when it stores and marks a label at
\* rp it sets marked_rp and marked_sp only, and the step of the scan changes Q only
\* by resetting the entry of the scanned route when it leaves the route. Q is
\* tightened by clear_and_init, by the footpath relaxer and by the connection
\* relaxer, and the route of a route point marked by store_better need not be
\* queued for the next round.
StoreLeavesQueue ==
    /\ StoreCalled => StoreCall.e.Q = Q
    /\ pc = "rp" =>
           \A r \in DOMAIN Q :
               \/ LoopRoutePoint(Eng).Q[r] = Q[r]
               \/ r = route /\ LoopRoutePoint(Eng).Q[r] = QueueSentinel(clockwise)

\* at the head of a round, a route point marked by store_better in the round before
\* whose route is not queued
StoreLeavesQueueWitness ==
    /\ pc = "round"
    /\ count >= 1
    /\ \E rp \in MarkedByStore : Q[data.route_points[rp].route_idx] = QueueSentinel(clockwise)

\* C20 as stated: store_better tightens Q[rp.route] toward rp.order when it stores
\* and marks a label at rp, so that at the head of the next round the route of
\* every route point it marked is queued
StoreQueuesRoute ==
    pc = "round" /\ count >= 1 => \A rp \in MarkedByStore : Queued(rp)

(***************************************************************************)
(* C21: the reset of the queue.                                            *)
(***************************************************************************)
\* every entry of Q is the sentinel of the direction of the run
QueueEmpty == \A r \in DOMAIN Q : Q[r] = QueueSentinel(clockwise)

\* the steps of the route-scan phase of a round: the head of the round, the head
\* of the loop over the routes, the scan of a route point
InScanPhase == pc \in {"round", "route", "rp"}

\* C21: when the route-scan phase of a round has ended (the loop over the routes is
\* left, the connection relaxer is next), Q[route] is the sentinel of the direction
\* of the run for every route, scanned, skipped as unmarked or skipped as invalid;
\* and a step of the route-scan phase changes an entry of Q only by resetting it to
\* the sentinel, so that every other value a scan meets in Q was written by the
\* seeding or by the connection and footpath relaxers since the scan before.
QueueReset ==
    /\ [](pc = "connections" => QueueEmpty)
    /\ [][InScanPhase =>
              \A r \in DOMAIN Q : Q'[r] = Q[r] \/ Q'[r] = QueueSentinel(clockwise)]_vars

\* the route-scan phase of the first round of a reverse run has ended: a route was
\* scanned and a label stored, and a route that is not valid, queued by the seed on
\* one of its route points, was skipped
QueueResetWitness ==
    /\ pc = "connections"
    /\ ~clockwise
    /\ count = 1
    /\ \E rp \in DOMAIN data.route_points : retour[1][rp].type = "vj"
    /\ QueueEmpty
    /\ \E rp \in DOMAIN data.route_points :
           /\ retour[0][rp].type = "depart"
           /\ data.route_points[rp].route_idx \notin routes_valides

(***************************************************************************)
(* C22: the time of the scan when it boards a trip.                        *)
(***************************************************************************)
\* the next step of the scan boards a trip at the route point of the scan
BoardsTrip == pc = "rp" /\ LoopRoutePoint(Eng).t # t

\* the stop time of the trip vj at the route point of the scan
BoardedSt(vj) == data.stop_times[data.vehicle_journeys[vj].stop_time_list[order]]

\* the time of the label of the round before at the route point of the scan
PreviousTime == PreviousDatetime(clockwise, retour[count - 1][ScanRp])

\* C22: when the route scan boards a different trip at rp, working_dt becomes the
\* time of the label of the round before (tau[k-1][rp].arrival forward, .departure
\* reverse) rolled to the departure time of the boarded trip at rp in a forward
\* run, and to its arrival time at rp in a reverse run.
RebindingTime ==
    BoardsTrip =>
        LoopRoutePoint(Eng).workingDt =
            IF clockwise
            THEN DtUpdate(PreviousTime, BoardedSt(LoopRoutePoint(Eng).t).departure_time)
            ELSE DtUpdateReverse(PreviousTime, BoardedSt(LoopRoutePoint(Eng).t).arrival_time)

(***************************************************************************)
(* C23: the connection relaxer.                                            *)
(***************************************************************************)
\* the route points at which the connection relaxer, run from this state, writes
\* a label
ConnInstalled ==
    {rp \in DOMAIN data.route_points :
        \/ LoopConnections(Eng).retour[count][rp] # retour[count][rp]
        \/ LoopConnections(Eng).best[rp] # best[rp]}

\* the label lab at the route point target was made from the label that the source
\* held when the phase started, by an entry of the connection table from the
\* source to the target: its time is the arrival of the source plus (reverse:
\* minus) the length of the entry, nothing added
MadeByEntry(lab, target) ==
    \E i \in DOMAIN data.footpath_rp :
        /\ RpcSource(clockwise, data.footpath_rp[i]) = lab.rpid_embarquement
        /\ RpcTarget(clockwise, data.footpath_rp[i]) = target
        /\ lab.arrival = Combine(clockwise, retour[count][lab.rpid_embarquement].arrival,
                                 data.footpath_rp[i].length)
        /\ lab.departure = lab.arrival

\* Q after the targets are marked: every route queued at the first (reverse: last)
\* of its targets, unless it is queued before (reverse: after) it already
QueueAfterTargets(targets) ==
    [r \in DOMAIN Q |->
        LET orders == {data.route_points[rp].order :
                          rp \in {x \in targets : data.route_points[x].route_idx = r}}
        IN  IF orders = {} THEN Q[r]
            ELSE IF clockwise THEN Min(orders \cup {Q[r]}) ELSE Max(orders \cup {Q[r]})]

\* C23: in round k the connection relaxer installs a ConnectionExtension or
\* ConnectionGuarantee label at rp' only from a source rp that was in marked_rp
\* when the phase started and whose label tau[k][rp] was of type VehicleJourney,
\* only if tau[k][rp].arrival plus (reverse: minus) the length of the connection
\* strictly improves best[rp'].arrival, and with exactly that time; best[rp'] is
\* that label; the targets are marked in marked_rp and their routes queued by the
\* end of the phase, and since every source held a VehicleJourney label no label
\* installed by the phase is the source of another.
ConnectionRelaxer ==
    pc = "connections" =>
        /\ \A target \in ConnInstalled :
               LET lab == LoopConnections(Eng).retour[count][target]
               IN  /\ lab.type \in {"connection_extension", "connection_guarantee"}
                   /\ LoopConnections(Eng).best[target] = lab
                   /\ lab.rpid_embarquement \in marked_rp
                   /\ retour[count][lab.rpid_embarquement].type = "vj"
                   /\ MadeByEntry(lab, target)
                   /\ Comp(clockwise, lab.arrival, best[target].arrival)
        /\ LoopConnections(Eng).marked_rp = marked_rp \cup ConnInstalled
        /\ LoopConnections(Eng).Q = QueueAfterTargets(ConnInstalled)
        /\ LoopConnections(Eng).marked_sp = marked_sp
        /\ LoopConnections(Eng).b_dest = b_dest

\* the entry i of the connection table would pass the test on the time from the
\* label that its source holds in the engine e, against best of e
WouldImprove(e, i) ==
    Comp(clockwise,
         Combine(clockwise, e.retour[count][RpcSource(clockwise, data.footpath_rp[i])].arrival,
                 data.footpath_rp[i].length),
         e.best[RpcTarget(clockwise, data.footpath_rp[i])].arrival)

\* the entry i leaves a marked source whose label of the vehicle journey the phase
\* overwrites with the label of a connection; from either label the entry would
\* pass the test on the time, and the phase installs nothing through it
RefusedOverwrittenSource(i) ==
    /\ RpcSource(clockwise, data.footpath_rp[i]) \in marked_rp \cap ConnInstalled
    /\ WouldImprove(Eng, i)
    /\ WouldImprove(LoopConnections(Eng), i)
    /\ LoopConnections(Eng).retour[count][RpcTarget(clockwise, data.footpath_rp[i])]
           .rpid_embarquement # RpcSource(clockwise, data.footpath_rp[i])

\* the entry i leaves a target of the phase that was not marked when the phase
\* started; the entry would pass the test on the time from the label installed,
\* and the phase installs nothing through it
UnmarkedTargetNoSource(i) ==
    /\ RpcSource(clockwise, data.footpath_rp[i]) \in ConnInstalled \ marked_rp
    /\ WouldImprove(LoopConnections(Eng), i)
    /\ LoopConnections(Eng).retour[count][RpcTarget(clockwise, data.footpath_rp[i])]
           .rpid_embarquement # RpcSource(clockwise, data.footpath_rp[i])

\* the connection relaxer is about to install a label through a connection of
\* non-zero length and to queue the route of its target; to overwrite the label of
\* a marked source that has an entry of its own, which it then refuses; and to
\* install a label at an unmarked route point that has an entry of its own, which
\* it does not visit
ConnectionRelaxerWitness ==
    /\ pc = "connections"
    /\ \E target \in ConnInstalled :
           /\ LoopConnections(Eng).retour[count][target].type = "connection_guarantee"
           /\ LoopConnections(Eng).retour[count][target].arrival
                  # retour[count][LoopConnections(Eng).retour[count][target]
                                     .rpid_embarquement].arrival
           /\ LoopConnections(Eng).Q[data.route_points[target].route_idx]
                  # QueueSentinel(clockwise)
    /\ \E i \in DOMAIN data.footpath_rp : RefusedOverwrittenSource(i)
    /\ \E i \in DOMAIN data.footpath_rp : UnmarkedTargetNoSource(i)

(***************************************************************************)
(* The footpath relaxer as seen from the state before it runs: the marked  *)
(* stop points in the order of the loop, and the state in which each of    *)
(* them is processed.                                                      *)
(***************************************************************************)
\* the footpath relaxer is the next step
FootPathNext == pc \in {"walk0", "walking"}

\* the marked stop points, in the order find_first / find_next yields them
MarkedSps == SortedSeq(marked_sp)

\* the engine when foot_path reaches the i-th marked stop point
FpBefore(i) == FpPrefix(Eng, MarkedSps, i - 1).e

\* the member route points of the i-th marked stop point
FpMembers(i) == data.stop_points[MarkedSps[i]].route_point_list

\* the pivot best_rp that foot_path computes for the i-th marked stop point
FpPivotOf(i) ==
    FpPivot(FpBefore(i), FpMembers(i), 1,
            [best_arrival |-> Worst(clockwise), best_rp |-> invalid_idx])

(***************************************************************************)
(* C24: the pivot of the footpath relaxer.                                 *)
(***************************************************************************)
\* the members of the i-th marked stop point whose label of the round is
\* initialized, when foot_path reaches it
InitializedMembers(i) ==
    {rp \in Range(FpMembers(i)) : FpBefore(i).retour[count][rp].type # "uninitialized"}

\* the time of the label of the round at rp, in the field of the direction of the
\* run, when foot_path reaches the i-th marked stop point
RoundTime(i, rp) == Instant(clockwise, FpBefore(i).retour[count][rp])

\* C24: for every marked stop point sp processed by the footpath relaxer in round
\* k, the pivot best_rp is a member route point of sp whose label of round k is
\* initialized, whatever its type, and no member of sp with an initialized label
\* of round k has a better time in the direction of the run (arrival forward,
\* departure reverse); there is no pivot only if no member holds an initialized
\* label of round k.
FootpathPivot ==
    FootPathNext =>
        \A i \in 1..Len(MarkedSps) :
            IF InitializedMembers(i) = {} THEN FpPivotOf(i).best_rp = invalid_idx
            ELSE /\ FpPivotOf(i).best_rp \in InitializedMembers(i)
                 /\ \A rp \in InitializedMembers(i) :
                        ~Comp(clockwise, RoundTime(i, rp), RoundTime(i, FpPivotOf(i).best_rp))

(***************************************************************************)
(* C25: the transfer within a stop point.                                  *)
(***************************************************************************)
\* the i-th marked stop point has a pivot
HasPivot(i) == FpPivotOf(i).best_rp # invalid_idx

\* the engine when foot_path has gone through the siblings of the pivot of the
\* i-th marked stop point, before it walks the footpaths of the stop point
FpAfterSiblings(i) ==
    FpSiblings(FpBefore(i), FpMembers(i), 1, FpPivotOf(i).best_rp,
               Combine(clockwise, FpPivotOf(i).best_arrival, ConnectionSlack))

\* the members of the i-th marked stop point at which that loop writes a label
SiblingsInstalled(i) ==
    {rp \in Range(FpMembers(i)) :
        \/ FpAfterSiblings(i).retour[count][rp] # FpBefore(i).retour[count][rp]
        \/ FpAfterSiblings(i).best[rp] # FpBefore(i).best[rp]}

\* the time of the pivot of the i-th marked stop point in the direction of the
\* run, moved by the transfer slack: 120 s later forward, 120 s earlier reverse
SlackTime(i) == Combine(clockwise, RoundTime(i, FpPivotOf(i).best_rp), ConnectionSlack)

\* C25: every Connection label that the footpath relaxer installs at a sibling
\* route point of the pivot, in the pivot's own stop point, has exactly the time of
\* the pivot plus 120 s (forward run) or minus 120 s (reverse run), refers to the
\* pivot as its predecessor, is installed only if that time strictly improves
\* best[rp] in the direction of the run, is best[rp] after it, and is never
\* installed on the pivot itself.
SiblingSlack ==
    FootPathNext =>
        \A i \in 1..Len(MarkedSps) :
            HasPivot(i) =>
                \A rp \in SiblingsInstalled(i) :
                    /\ rp # FpPivotOf(i).best_rp
                    /\ FpAfterSiblings(i).retour[count][rp]
                           = RetourConnection(SlackTime(i), SlackTime(i),
                                              FpPivotOf(i).best_rp, "connection")
                    /\ FpAfterSiblings(i).best[rp] = FpAfterSiblings(i).retour[count][rp]
                    /\ Comp(clockwise, SlackTime(i), Instant(clockwise, FpBefore(i).best[rp]))

(***************************************************************************)
(* The walk of the footpaths of a marked stop point, visit by visit: a      *)
(* visit is one turn of the loop over the route points of the stop point   *)
(* that the current entry of foot_path leads to.                           *)
(***************************************************************************)
\* the position of the shared iterator when it enters the slice of the i-th marked
\* stop point: it += index.first - last
FpStart(i) ==
    FpPrefix(Eng, MarkedSps, i - 1).it
        + data.footpath_index[MarkedSps[i]].first - FpPrefix(Eng, MarkedSps, i - 1).last

\* the visits of the i-th marked stop point, in order: the entry of foot_path the
\* iterator is at, its duration, and the route point of its destination
FpVisits(i) ==
    Flatten([j \in 1..data.footpath_index[MarkedSps[i]].second |->
        LET fp == data.foot_path[FpStart(i) + j - 1]
            list == data.stop_points[fp.destination_stop_point_idx].route_point_list
        IN  [x \in 1..Len(list) |->
                [it |-> FpStart(i) + j - 1, duration |-> fp.duration, rp |-> list[x]]]])

\* previous: the time of the pivot that the walk starts from
FpPrevious(i) ==
    Instant(clockwise, FpAfterSiblings(i).retour[count][FpPivotOf(i).best_rp])

RECURSIVE FpVisited(_, _)
\* the engine and the duration cache (next, prec_duration) after the first n
\* visits of the i-th marked stop point
FpVisited(i, n) ==
    IF n = 0
    THEN [e |-> FpAfterSiblings(i), next |-> Worst(clockwise), prec_duration |-> -1]
    ELSE FpDestinationRps(FpVisited(i, n - 1), <<FpVisits(i)[n].rp>>, 1,
                          FpPivotOf(i).best_rp, FpPrevious(i), FpVisits(i)[n].duration)

\* the visits make up the turn of the loop over the marked stop points
VisitsMakeTurn(i) ==
    FpVisited(i, Len(FpVisits(i))).e = FpPrefix(Eng, MarkedSps, i).e

(***************************************************************************)
(* C26: the ties of the footpaths between stop points.                     *)
(***************************************************************************)
\* the route point of the n-th visit of the i-th marked stop point
VisitRp(i, n) == FpVisits(i)[n].rp

\* the time a footpath of that visit carries to its destination: the time of the
\* pivot in the direction of the run, plus (reverse: minus) the duration
WalkTime(i, n) == Combine(clockwise, RoundTime(i, FpPivotOf(i).best_rp), FpVisits(i)[n].duration)

\* best[rp'] in the field of the direction of the run, when the visit starts
BestBefore(i, n) == Instant(clockwise, FpVisited(i, n - 1).e.best[VisitRp(i, n)])

\* the visit is on a tie: the time of the walk equals best[rp']
OnTie(i, n) == VisitRp(i, n) # FpPivotOf(i).best_rp /\ WalkTime(i, n) = BestBefore(i, n)

\* the visit installs a label
Admitted(i, n) ==
    /\ VisitRp(i, n) # FpPivotOf(i).best_rp
    /\ Comp(clockwise, WalkTime(i, n), BestBefore(i, n)) \/ WalkTime(i, n) = BestBefore(i, n)

\* foot_path would take the route point rp as the pivot of a stop point that had
\* no other member, with the labels of the engine e
EligibleAsPivot(e, rp) ==
    FpPivot(e, <<rp>>, 1, [best_arrival |-> Worst(e.clockwise), best_rp |-> invalid_idx])
        .best_rp = rp

\* the n-th visit of the i-th marked stop point installs its Connection label at
\* rp', in tau[k] and in best, if and only if the time of the walk is better than
\* or equal to best[rp']
InstallsOnBetterOrEqual(i, n) ==
    IF Admitted(i, n)
    THEN /\ FpVisited(i, n).e.retour[count][VisitRp(i, n)]
                = RetourConnection(WalkTime(i, n), WalkTime(i, n),
                                   FpPivotOf(i).best_rp, "connection")
         /\ FpVisited(i, n).e.best[VisitRp(i, n)]
                = FpVisited(i, n).e.retour[count][VisitRp(i, n)]
    ELSE /\ FpVisited(i, n).e.retour = FpVisited(i, n - 1).e.retour
         /\ FpVisited(i, n).e.best = FpVisited(i, n - 1).e.best

\* C26 (amended): for a footpath (sp -> sp', duration d) of a processed stop
\* point, a Connection label with time combine(pivot time, d) is installed at every
\* route point rp' of sp' other than the pivot if and only if that time is better
\* than or equal to best[rp'] in the field of the direction of the run; on
\* equality the label at tau[k][rp'] and best[rp'] is overwritten. The label
\* installed is of type Connection, and a route point that holds it is not
\* eligible as a pivot: admitting the tie does not make rp' a pivot.
FootpathTies ==
    FootPathNext =>
        \A i \in 1..Len(MarkedSps) :
            HasPivot(i) =>
                /\ VisitsMakeTurn(i)
                /\ \A n \in 1..Len(FpVisits(i)) :
                       /\ InstallsOnBetterOrEqual(i, n)
                       /\ Admitted(i, n) => ~EligibleAsPivot(FpVisited(i, n).e, VisitRp(i, n))

\* a footpath reaches, on a tie, a route point that holds an initialized label of
\* the round, which is overwritten by a label with another predecessor
FootpathTiesWitness ==
    /\ FootPathNext
    /\ \E i \in 1..Len(MarkedSps) :
           /\ HasPivot(i)
           /\ \E n \in 1..Len(FpVisits(i)) :
                  /\ OnTie(i, n)
                  /\ FpVisited(i, n - 1).e.retour[count][VisitRp(i, n)].type # "uninitialized"
                  /\ FpVisited(i, n).e.retour[count][VisitRp(i, n)]
                         # FpVisited(i, n - 1).e.retour[count][VisitRp(i, n)]

\* C26 as stated: the label is installed if and only if the time is better than or
\* equal to best[rp'], and after a tie rp' can serve as a pivot
TiesServeAsPivots ==
    FootPathNext =>
        \A i \in 1..Len(MarkedSps) :
            HasPivot(i) =>
                \A n \in 1..Len(FpVisits(i)) :
                    /\ InstallsOnBetterOrEqual(i, n)
                    /\ OnTie(i, n) => EligibleAsPivot(FpVisited(i, n).e, VisitRp(i, n))

(***************************************************************************)
(* C27: the shared iterator of foot_path.                                  *)
(***************************************************************************)
\* footpath_index of the i-th marked stop point: (offset, count)
FpIndex(i) == data.footpath_index[MarkedSps[i]]

\* the entries of foot_path the iterator is at during the turn of the i-th marked
\* stop point
FpEntries(i) == {FpStart(i) + j - 1 : j \in 1..FpIndex(i).second}

\* the iterator and the counter last are where the turn before left them
IteratorKept(i) ==
    /\ FpPrefix(Eng, MarkedSps, i).it = FpPrefix(Eng, MarkedSps, i - 1).it
    /\ FpPrefix(Eng, MarkedSps, i).last = FpPrefix(Eng, MarkedSps, i - 1).last

\* C27: in a footpath pass, for every marked stop point sp that has a pivot, the
\* shared iterator goes through the entries foot_path[offset .. offset+count-1]
\* of footpath_index[sp] = (offset, count), each once and in order, and through
\* no other entry; a stop point without a pivot leaves the iterator and the
\* counter last unchanged; and the cached value next, whenever a route point
\* other than the pivot is visited, equals combine(pivot time, duration of the
\* current entry).
SliceWalkedOnce ==
    FootPathNext =>
        \A i \in 1..Len(MarkedSps) :
            IF HasPivot(i)
            THEN /\ FpEntries(i) = {x \in DOMAIN data.foot_path :
                                        /\ x >= FpIndex(i).first
                                        /\ x < FpIndex(i).first + FpIndex(i).second}
                 /\ FpPrefix(Eng, MarkedSps, i).it = FpIndex(i).first + FpIndex(i).second
                 /\ FpPrefix(Eng, MarkedSps, i).last = FpIndex(i).first + FpIndex(i).second
                 /\ VisitsMakeTurn(i)
                 /\ \A n \in 1..Len(FpVisits(i)) :
                        VisitRp(i, n) # FpPivotOf(i).best_rp
                            => FpVisited(i, n).next = WalkTime(i, n)
            ELSE IteratorKept(i)

\* a pass in which the iterator, after the slice of one stop point, jumps over
\* entries to the slice of a later stop point, and in which a slice holds two
\* entries of different durations that lead to route points other than the pivot
SliceWalkedOnceWitness ==
    /\ FootPathNext
    /\ \E i \in 2..Len(MarkedSps) :
           /\ HasPivot(i)
           /\ FpIndex(i).second > 0
           /\ FpPrefix(Eng, MarkedSps, i - 1).last > 0
           /\ FpPrefix(Eng, MarkedSps, i - 1).last < FpIndex(i).first
    /\ \E i \in 1..Len(MarkedSps) :
           /\ HasPivot(i)
           /\ \E n \in 2..Len(FpVisits(i)) :
                  /\ FpVisits(i)[n].duration # FpVisits(i)[n - 1].duration
                  /\ VisitRp(i, n - 1) # FpPivotOf(i).best_rp
                  /\ VisitRp(i, n) # FpPivotOf(i).best_rp

(***************************************************************************)
(* C28: the queue of a reverse run at order 0.                             *)
(***************************************************************************)
\* the engine when the loop over the siblings of the pivot of the i-th marked stop
\* point has gone through the first n members of the stop point
FpSiblingsAfter(i, n) ==
    FpSiblings(FpBefore(i), SubSeq(FpMembers(i), 1, n), 1, FpPivotOf(i).best_rp,
               Combine(clockwise, FpPivotOf(i).best_arrival, ConnectionSlack))

\* the loop over the siblings installs a label at the n-th member
SiblingAdmitted(i, n) ==
    /\ FpMembers(i)[n] # FpPivotOf(i).best_rp
    /\ Comp(clockwise, Combine(clockwise, FpPivotOf(i).best_arrival, ConnectionSlack),
            Instant(clockwise, FpSiblingsAfter(i, n - 1).best[FpMembers(i)[n]]))

\* the step from the engine before to the engine after installs a label at rp, a
\* route point of order 0 whose route is not queued, and the destination tracker
\* does not absorb the label
InstallsAtOrderZero(before, after, rp) ==
    /\ data.route_points[rp].order = 0
    /\ before.Q[data.route_points[rp].route_idx] = -1
    /\ ~AccepteBest(before.b_dest, rp, after.retour[count][rp], clockwise)

\* ... and then the route of rp is queued at order 0
QueuedAtOrderZero(before, after, rp) ==
    InstallsAtOrderZero(before, after, rp) => after.Q[data.route_points[rp].route_idx] = 0

\* every install of the footpath relaxer, in a reverse run
FootpathQueuesOrderZero ==
    (FootPathNext /\ ~clockwise) =>
        \A i \in 1..Len(MarkedSps) :
            HasPivot(i) =>
                /\ FpSiblingsAfter(i, Len(FpMembers(i))) = FpAfterSiblings(i)
                /\ \A n \in 1..Len(FpMembers(i)) :
                       SiblingAdmitted(i, n)
                           => QueuedAtOrderZero(FpSiblingsAfter(i, n - 1),
                                                FpSiblingsAfter(i, n), FpMembers(i)[n])
                /\ \A n \in 1..Len(FpVisits(i)) :
                       Admitted(i, n)
                           => QueuedAtOrderZero(FpVisited(i, n - 1).e,
                                                FpVisited(i, n).e, VisitRp(i, n))

\* the head of the loop over the routes is at a valid route queued at order 0, in
\* a reverse run
AtRouteQueuedZero == pc = "route" /\ ~clockwise /\ Q[route] = 0 /\ route \in routes_valides

\* C28: in a reverse run, when the footpath relaxer installs a label that the
\* destination tracker does not absorb on a route point of order 0 whose route has
\* Q[route] at the sentinel -1, Q[route] becomes 0; and the route scan that finds
\* Q[route] = 0 on a valid route takes the route as marked and scans it from
\* order 0.
ReverseQueueOrderZero ==
    /\ []FootpathQueuesOrderZero
    /\ [][AtRouteQueuedZero => (pc' = "rp" /\ order' = 0 /\ route' = route)]_vars

\* the footpath relaxer of a reverse run installs, at a route point of order 0 of
\* a valid route that is not queued, a label that the tracker does not absorb
ReverseQueueOrderZeroWitness ==
    /\ FootPathNext
    /\ ~clockwise
    /\ \E i \in 1..Len(MarkedSps) :
           /\ HasPivot(i)
           /\ \E n \in 1..Len(FpVisits(i)) :
                  /\ Admitted(i, n)
                  /\ InstallsAtOrderZero(FpVisited(i, n - 1).e, FpVisited(i, n).e,
                                         VisitRp(i, n))
                  /\ data.route_points[VisitRp(i, n)].route_idx \in routes_valides

(***************************************************************************)
(* C29: the local traffic zone.                                            *)
(***************************************************************************)
\* the scan of a route is at a route point with a trip boarded
ScanWithTrip == pc = "rp" /\ t >= 0

\* the stop time at which the trip t was boarded: the one of t at the order of the
\* boarding route point
BoardingSt ==
    data.stop_times[data.vehicle_journeys[t]
                        .stop_time_list[data.route_points[embarquement].order]]

\* no zone is set at the boarding, or the zone of the stop time at rp differs from
\* the zone of the boarding
ZonesAllowStore ==
    \/ BoardingSt.local_traffic_zone = NoZone
    \/ ScanSt.local_traffic_zone # BoardingSt.local_traffic_zone

\* the zones that occur in the timetable, and "no zone"
ZoneValues == {data.stop_times[st].local_traffic_zone : st \in DOMAIN data.stop_times}
                  \cup {NoZone}

\* the labels, the marks and the signal of the round after the step of the scan
ScanOutcome(e) == <<e.retour, e.best, e.marked_rp, e.marked_sp, e.b_dest, e.end>>

\* the engines a and b differ at most in l_zone, and not even there if a trip is
\* boarded
SameButLeftover(a, b) ==
    /\ [a EXCEPT !.l_zone = b.l_zone] = b
    /\ b.t >= 0 => a.l_zone = b.l_zone

\* C29: during the scan of a route with a boarded trip, a store is attempted at rp
\* if and only if no zone is set or the zone of the stop time at rp differs from
\* l_zone, and l_zone is the local_traffic_zone of the stop time at which the
\* current trip was boarded, in the scan of this route; without a store the step
\* writes no label. While no trip is boarded in the scan of a route the value of
\* l_zone, left over from the scan of another route, decides nothing: whatever
\* that value, the step stores nothing, boards the same trip or none, and leaves
\* the same engine but for the leftover itself when no trip is boarded.
LocalTrafficZone ==
    /\ ScanWithTrip =>
           /\ data.route_points[embarquement].route_idx = route
           /\ data.vehicle_journeys[t].route_idx = route
           /\ l_zone = BoardingSt.local_traffic_zone
           /\ StoreCalled <=> ZonesAllowStore
           /\ IF ZonesAllowStore
              THEN ScanOutcome(LoopRoutePoint(Eng))
                       = ScanOutcome([StoreCall.e EXCEPT !.end = StoreCall.ret /\ end])
              ELSE ScanOutcome(LoopRoutePoint(Eng)) = ScanOutcome(Eng)
    /\ (pc = "rp" /\ t < 0) =>
           \A z \in ZoneValues :
               SameButLeftover(LoopRoutePoint([Eng EXCEPT !.l_zone = z]),
                               LoopRoutePoint(Eng))

\* the scan, with a trip boarded in zone 1, is at a stop time of zone 1: no store
LocalTrafficZoneWitness ==
    /\ ScanWithTrip
    /\ BoardingSt.local_traffic_zone # NoZone
    /\ ScanSt.local_traffic_zone = BoardingSt.local_traffic_zone
    /\ ~StoreCalled

(***************************************************************************)
(* C30: the exit of raptor_loop.                                           *)
(***************************************************************************)
\* nothing is marked
NothingMarked == marked_rp = {} /\ marked_sp = {}

\* the relaxers of a round in which no store has marked a route point are next
InLastRoundRelaxers == pc \in {"connections", "walking"} /\ end

\* clear_and_init is the next step of the driver
ClearAndInitNext == pc = "init" \/ (pc = "next_departure" /\ departures # <<>>)

\* C30: in the last round of every run of raptor_loop the connection relaxer and
\* the footpath relaxer change nothing; when the loop returns marked_rp and
\* marked_sp are empty and every Q[route] is at the sentinel; and a clear_and_init,
\* which sets bits of marked_sp without clearing the bitset, starts from an empty
\* marked_sp.
QuiescentExit ==
    /\ [](pc = "loop_done" => (end /\ NothingMarked /\ QueueEmpty))
    /\ [](InLastRoundRelaxers => NothingMarked)
    /\ [](ClearAndInitNext => marked_sp = {})
    /\ [][InLastRoundRelaxers =>
              /\ retour' = retour /\ best' = best /\ Q' = Q /\ b_dest' = b_dest
              /\ marked_rp' = marked_rp /\ marked_sp' = marked_sp
              /\ pc = "walking" => pc' = "loop_done"]_vars

\* the loop has returned after a last round, the third at least, in which a label
\* was stored without a mark
QuiescentExitWitness ==
    /\ pc = "loop_done"
    /\ count >= 3
    /\ \E rp \in DOMAIN data.route_points : retour[count][rp].type = "vj"

(***************************************************************************)
(* C31: makePath reaches a label of type Departure.                        *)
(***************************************************************************)
\* the labels of round k that are initialized
InitializedAt(k) == {rp \in DOMAIN data.route_points : retour[k][rp].type # "uninitialized"}

RECURSIVE ChainLength(_, _, _)
\* the number of predecessor links makePath follows in round k from the route
\* point rp until it meets a label that is no connection label; -1 if it has not
\* met one after fuel links
ChainLength(k, rp, fuel) ==
    IF retour[k][rp].type \notin ConnectionTypes THEN 0
    ELSE IF fuel = 0 THEN -1
    ELSE LET rest == ChainLength(k, retour[k][rp].rpid_embarquement, fuel - 1)
         IN  IF rest < 0 THEN -1 ELSE rest + 1

\* the predecessor links of the connection labels of round k contain no cycle and
\* lead to initialized labels of round k
ConnectionsAcyclic(k) ==
    \A rp \in InitializedAt(k) :
        /\ ChainLength(k, rp, NbRoutePoints(data)) >= 0
        /\ retour[k][rp].type \in ConnectionTypes
               => retour[k][rp].rpid_embarquement \in InitializedAt(k)

\* the vehicle leg of the label of round k at rp walks the stop times of its trip
\* back (reverse: on) to the boarding route point, where the label of round k-1
\* is initialized; there is no such label in round 0
LegLandsOneRoundBelow(k, rp) ==
    /\ k >= 1
    /\ VjItem(Eng, k, rp, ~clockwise).type = "public_transport"
    /\ retour[k][rp].rpid_embarquement \in InitializedAt(k - 1)

\* the labels of type Departure are those of round 0 that the seeding wrote
DepartOnlyInRoundZero ==
    \A k \in 1..count : \A rp \in InitializedAt(k) : retour[k][rp].type # "depart"

\* C31: at the end of a round loop, for every (rp, k) with 1 <= k <= count and
\* tau[k][rp] initialized, makePath(rp, k) reaches a label of type Departure after
\* finitely many steps: the predecessor links of the connection labels of one
\* round contain no cycle, every vehicle leg decrements the round by exactly one
\* and lands on an initialized label of round k-1, and the round index never goes
\* below 0 (round 0 holds no VehicleJourney label, and the reconstruction has
\* exactly k public_transport items).
PathReconstructionTerminates ==
    pc = "loop_done" =>
        /\ \A k \in 0..count :
               /\ ConnectionsAcyclic(k)
               /\ \A rp \in InitializedAt(k) :
                      retour[k][rp].type = "vj" => LegLandsOneRoundBelow(k, rp)
        /\ DepartOnlyInRoundZero
        /\ \A k \in 1..count : \A rp \in InitializedAt(k) :
               /\ MakePath(Eng, rp, k, ~clockwise).ends
               /\ NbItems(MakePath(Eng, rp, k, ~clockwise), {"public_transport"}) = k

\* a loop has returned with a label whose reconstruction follows two connection
\* labels of one round, one after the other, and then a vehicle leg down to the
\* label of type Departure
PathReconstructionWitness ==
    /\ pc = "loop_done"
    /\ \E k \in 1..count : \E rp \in InitializedAt(k) :
           /\ ChainLength(k, rp, NbRoutePoints(data)) >= 2
           /\ MakePath(Eng, rp, k, ~clockwise).ends
           /\ NbItems(MakePath(Eng, rp, k, ~clockwise), {"public_transport"}) >= 1

====
